---- MODULE Spec2Model ----
(***************************************************************************)
(* Query path language of the network CLI: the path parser                 *)
(* (cli/src/query/parser.rs), the query executor                           *)
(* (cli/src/query/executor.rs) and the scope resolver                      *)
(* (cli/src/scope/resolver.rs), over the network model                     *)
(* (cli/src/parser/models.rs) and the inheritance configuration            *)
(* (cli/src/scope/config.rs).                                              *)
(*                                                                         *)
(* Strings of the program are sequences of one-character strings, so that  *)
(* the parser's scanning (find, split, slicing) is computed as in the      *)
(* code.  Option<T> is None / Some(x); Result<T, E> is Ok(x) / Err(e).     *)
(* serde_json numbers are integers here (no fractional arithmetic is       *)
(* needed); a flag keeps the integer / float distinction.                  *)
(***************************************************************************)
EXTENDS Integers, Sequences, FiniteSets, TLC

VARIABLES
    network,        \* the loaded Network (read-only after construction)
    config,         \* the Config held by the ScopeResolver
    scope_resolver, \* TRUE iff the QueryExecutor was built with a resolver
    unit_prefs,     \* property names with a preferred unit (UnitPreferences)
    op,             \* name of the last operation called ("new" after construction)
    arg,            \* its arguments
    out             \* its outcome

vars == <<network, config, scope_resolver, unit_prefs, op, arg, out>>

-----------------------------------------------------------------------------
(* Option and Result *)

None == [some |-> FALSE]
Some(x) == [some |-> TRUE, v |-> x]

Ok(x) == [ok |-> TRUE, v |-> x]
Err(e) == [ok |-> FALSE, e |-> e]

-----------------------------------------------------------------------------
(* String literals of the source *)

sType == <<"t", "y", "p", "e">>
sData == <<"d", "a", "t", "a">>
sBlocks == <<"b", "l", "o", "c", "k", "s">>
sNodes == <<"n", "o", "d", "e", "s">>
sEdges == <<"e", "d", "g", "e", "s">>
sNetwork == <<"n", "e", "t", "w", "o", "r", "k">>
sId == <<"i", "d">>
sLabel == <<"l", "a", "b", "e", "l">>
sPosition == <<"p", "o", "s", "i", "t", "i", "o", "n">>
sX == <<"x">>
sY == <<"y">>
sQuantity == <<"q", "u", "a", "n", "t", "i", "t", "y">>
sOutgoing == <<"o", "u", "t", "g", "o", "i", "n", "g">>
sTarget == <<"t", "a", "r", "g", "e", "t">>
sWeight == <<"w", "e", "i", "g", "h", "t">>
sParentId == <<"p", "a", "r", "e", "n", "t", "I", "d">>
sBlock == <<"b", "l", "o", "c", "k">>
sBranch == <<"b", "r", "a", "n", "c", "h">>
sGroup == <<"g", "r", "o", "u", "p">>
sGlobal == <<"g", "l", "o", "b", "a", "l">>
sTrue == <<"t", "r", "u", "e">>
sFalse == <<"f", "a", "l", "s", "e">>

-----------------------------------------------------------------------------
(* toml::Value and serde_json::Value *)

TString(s) == [k |-> "String", s |-> s]
TInteger(n) == [k |-> "Integer", n |-> n]
TFloat(n) == [k |-> "Float", finite |-> TRUE, n |-> n]
TFloatNonFinite == [k |-> "Float", finite |-> FALSE, n |-> 0]
TBoolean(b) == [k |-> "Boolean", b |-> b]
TDatetime(s) == [k |-> "Datetime", s |-> s]
TArray(a) == [k |-> "Array", a |-> a]
TTable(m) == [k |-> "Table", m |-> m]

JNull == [k |-> "Null"]
JBool(b) == [k |-> "Bool", b |-> b]
JNumber(n, isFloat) == [k |-> "Number", n |-> n, f |-> isFloat]
JString(s) == [k |-> "String", s |-> s]
JArray(a) == [k |-> "Array", a |-> a]
JObject(m) == [k |-> "Object", m |-> m]

\* Value::as_str
AsStr(v) == IF v.k = "String" THEN Some(v.s) ELSE None

\* executor.rs toml_to_json: a non-finite float has no JSON number and becomes
\* Null, a datetime becomes its string, the rest keeps its shape.
RECURSIVE toml_to_json(_)
toml_to_json(value) ==
    CASE value.k = "String" -> JString(value.s)
      [] value.k = "Integer" -> JNumber(value.n, FALSE)
      [] value.k = "Float" -> IF value.finite THEN JNumber(value.n, TRUE) ELSE JNull
      [] value.k = "Boolean" -> JBool(value.b)
      [] value.k = "Datetime" -> JString(value.s)
      [] value.k = "Array" ->
            JArray([i \in 1..Len(value.a) |-> toml_to_json(value.a[i])])
      [] value.k = "Table" ->
            JObject([key \in DOMAIN value.m |-> toml_to_json(value.m[key])])

-----------------------------------------------------------------------------
(* scope/config.rs *)

ScopeLevel == {"Block", "Branch", "Group", "Global"}

default_general_inheritance == <<"Block", "Branch", "Group", "Global">>

Simple(scopes) == [kind |-> "Simple", scopes |-> scopes]
Complex(inheritance, overrides) ==
    [kind |-> "Complex", inheritance |-> inheritance, overrides |-> overrides]

-----------------------------------------------------------------------------
(* scope/resolver.rs *)

\* A faulty variant of the walk below: the scope list is walked from its end.
RECURSIVE ExplicitScopesReversed(_, _, _, _, _, _)
ExplicitScopesReversed(cfg, property, block, branch, group, explicit_scopes) ==
    IF explicit_scopes = <<>> THEN None
    ELSE
        LET n == Len(explicit_scopes)
            scope == explicit_scopes[n]
            store == CASE scope = "Block" -> Some(block.extra)
                       [] scope = "Branch" -> Some(branch.base.extra)
                       [] scope = "Group" ->
                            IF group.some THEN Some(group.v.base.extra) ELSE None
                       [] scope = "Global" -> Some(cfg.properties)
        IN  IF store.some /\ property \in DOMAIN store.v
            THEN Some([value |-> store.v[property], level |-> scope])
            ELSE ExplicitScopesReversed(cfg, property, block, branch, group,
                                        SubSeq(explicit_scopes, 1, n - 1))

\* A faulty variant of the walk below: an absent group ends the walk instead of
\* being passed over.
RECURSIVE ExplicitScopesStopAtAbsentGroup(_, _, _, _, _, _)
ExplicitScopesStopAtAbsentGroup(cfg, property, block, branch, group, explicit_scopes) ==
    IF explicit_scopes = <<>> THEN None
    ELSE
        LET scope == Head(explicit_scopes)
            store == CASE scope = "Block" -> Some(block.extra)
                       [] scope = "Branch" -> Some(branch.base.extra)
                       [] scope = "Group" ->
                            IF group.some THEN Some(group.v.base.extra) ELSE None
                       [] scope = "Global" -> Some(cfg.properties)
        IN  IF store.some /\ property \in DOMAIN store.v
            THEN Some([value |-> store.v[property], level |-> scope])
            ELSE IF ~store.some THEN None
            ELSE ExplicitScopesStopAtAbsentGroup(cfg, property, block, branch, group,
                                                 Tail(explicit_scopes))

\* resolve_property_with_explicit_scopes: the first scope of the list whose
\* store has the property; an absent group has no store.
RECURSIVE resolve_property_with_explicit_scopes(_, _, _, _, _, _)
resolve_property_with_explicit_scopes(cfg, property, block, branch, group, explicit_scopes) ==
    IF explicit_scopes = <<>> THEN None
    ELSE
        LET scope == Head(explicit_scopes)
            store == CASE scope = "Block" -> Some(block.extra)
                       [] scope = "Branch" -> Some(branch.base.extra)
                       [] scope = "Group" ->
                            IF group.some THEN Some(group.v.base.extra) ELSE None
                       [] scope = "Global" -> Some(cfg.properties)
        IN  IF store.some /\ property \in DOMAIN store.v
            THEN Some([value |-> store.v[property], level |-> scope])
            ELSE resolve_property_with_explicit_scopes(cfg, property, block, branch, group,
                                                       Tail(explicit_scopes))

\* A faulty variant of get_scope_chain: a Complex rule without an override for
\* the block type falls back to the general list instead of the rule's own list.
ScopeChainGeneralFallback(cfg, property, block_type) ==
    IF property \in DOMAIN cfg.inheritance.rules
    THEN LET rule == cfg.inheritance.rules[property]
         IN  IF rule.kind = "Simple" THEN rule.scopes
             ELSE IF block_type \in DOMAIN rule.overrides
                  THEN rule.overrides[block_type]
                  ELSE cfg.inheritance.general
    ELSE cfg.inheritance.general

\* get_scope_chain
get_scope_chain(cfg, property, block_type) ==
    IF property \in DOMAIN cfg.inheritance.rules
    THEN LET rule == cfg.inheritance.rules[property]
         IN  IF rule.kind = "Simple" THEN rule.scopes
             ELSE IF block_type \in DOMAIN rule.overrides
                  THEN rule.overrides[block_type]
                  ELSE rule.inheritance
    ELSE cfg.inheritance.general

\* get_scope_chain_for_property: block_type is an Option
get_scope_chain_for_property(cfg, property, block_type) ==
    IF block_type.some THEN get_scope_chain(cfg, property, block_type.v)
    ELSE IF property \in DOMAIN cfg.inheritance.rules
         THEN LET r == cfg.inheritance.rules[property]
              IN  IF r.kind = "Simple" THEN r.scopes ELSE r.inheritance
         ELSE cfg.inheritance.general

\* resolve_property_with_scope
resolve_property_with_scope(cfg, property, block, branch, group) ==
    resolve_property_with_explicit_scopes(cfg, property, block, branch, group,
        get_scope_chain(cfg, property, block.type_))

\* resolve_property: the value without its level
resolve_property(cfg, property, block, branch, group) ==
    LET r == resolve_property_with_scope(cfg, property, block, branch, group)
    IN  IF r.some THEN Some(r.v.value) ELSE None

\* has_global_property
has_global_property(cfg, property) == property \in DOMAIN cfg.properties

-----------------------------------------------------------------------------
(* Small string functions of the standard library *)

Digits == <<"0", "1", "2", "3", "4", "5", "6", "7", "8", "9">>

IsDigit(c) == \E i \in 1..10 : Digits[i] = c

DigitVal(c) == (CHOOSE i \in 1..10 : Digits[i] = c) - 1

Upper == <<"A", "B", "C", "D", "E", "F", "G", "H", "I", "J", "K", "L", "M",
           "N", "O", "P", "Q", "R", "S", "T", "U", "V", "W", "X", "Y", "Z">>
Lower == <<"a", "b", "c", "d", "e", "f", "g", "h", "i", "j", "k", "l", "m",
           "n", "o", "p", "q", "r", "s", "t", "u", "v", "w", "x", "y", "z">>

\* str::to_lowercase
to_lowercase(s) ==
    [i \in 1..Len(s) |->
        IF \E j \in 1..26 : Upper[j] = s[i]
        THEN Lower[CHOOSE j \in 1..26 : Upper[j] = s[i]]
        ELSE s[i]]

\* u64 Display: the decimal digits of n
RECURSIVE NatToString(_)
NatToString(n) ==
    IF n < 10 THEN <<Digits[n + 1]>>
    ELSE NatToString(n \div 10) \o <<Digits[(n % 10) + 1]>>

\* the value of a non-empty all-digit string
RECURSIVE DigitsValue(_)
DigitsValue(s) ==
    IF Len(s) = 1 THEN DigitVal(s[1])
    ELSE 10 * DigitsValue(SubSeq(s, 1, Len(s) - 1)) + DigitVal(s[Len(s)])

AllDigits(s) == Len(s) > 0 /\ \A i \in 1..Len(s) : IsDigit(s[i])

\* usize::MAX of a 64-bit target, 18446744073709551615, as its digits
UsizeMaxDigits ==
    <<"1", "8", "4", "4", "6", "7", "4", "4", "0", "7", "3", "7", "0", "9", "5", "5",
      "1", "6", "1", "5">>

\* an all-digit string without its leading zeros
RECURSIVE StripZeros(_)
StripZeros(s) == IF s # <<>> /\ Head(s) = "0" THEN StripZeros(Tail(s)) ELSE s

\* is the number of an all-digit string at most usize::MAX: shorter than its
\* digits, or as long and not greater digit by digit
FitsUsize(s) ==
    \E d \in {StripZeros(s)} :
        \/ Len(d) < Len(UsizeMaxDigits)
        \/ /\ Len(d) = Len(UsizeMaxDigits)
           /\ \/ d = UsizeMaxDigits
              \/ \E i \in 1..Len(d) :
                    /\ SubSeq(d, 1, i - 1) = SubSeq(UsizeMaxDigits, 1, i - 1)
                    /\ DigitVal(d[i]) < DigitVal(UsizeMaxDigits[i])

\* str::parse::<usize>: digits with an optional leading '+', an error when
\* the number does not fit
ParseUsize(s) ==
    IF AllDigits(s) THEN (IF FitsUsize(s) THEN Some(DigitsValue(s)) ELSE None)
    ELSE IF Len(s) > 1 /\ s[1] = "+" /\ AllDigits(Tail(s))
    THEN (IF FitsUsize(Tail(s)) THEN Some(DigitsValue(Tail(s))) ELSE None)
    ELSE None

\* str::parse::<f64> on the strings of the model: an optionally signed run of
\* digits.  (Fractions, exponents and the words inf / nan / infinity, which
\* f64 also accepts, are spelled by no literal of the model.)
ParseF64(s) ==
    IF AllDigits(s) THEN Some(DigitsValue(s))
    ELSE IF Len(s) > 1 /\ s[1] = "+" /\ AllDigits(Tail(s)) THEN Some(DigitsValue(Tail(s)))
    ELSE IF Len(s) > 1 /\ s[1] = "-" /\ AllDigits(Tail(s)) THEN Some(0 - DigitsValue(Tail(s)))
    ELSE None

\* str::parse::<bool>
ParseBool(s) ==
    IF s = sTrue THEN Some(TRUE) ELSE IF s = sFalse THEN Some(FALSE) ELSE None

\* the element of a one-element set.  In TheOne({e : t \in {s}}) TLC evaluates
\* s once and e with t bound to its value; an operator argument or a LET
\* definition is evaluated again at every use.
TheOne(S) == CHOOSE r \in S : TRUE

\* str::find(char): the 1-based position of the first c, or 0
Find(s, c) ==
    TheOne({IF \E i \in 1..Len(t) : t[i] = c
            THEN CHOOSE i \in 1..Len(t) : t[i] = c /\ \A j \in 1..(i - 1) : t[j] # c
            ELSE 0 : t \in {s}})

Contains(s, c) == \E t \in {s} : \E i \in 1..Len(t) : t[i] = c

\* str::split(char): the pieces between the separators, empty pieces kept;
\* piece k lies between the (k-1)-th and the k-th separator
Split(s, c) ==
    TheOne({LET seps == {i \in 1..Len(t) : t[i] = c}
                nth(k) == IF k = 0 THEN 0
                          ELSE IF k > Cardinality(seps) THEN Len(t) + 1
                          ELSE CHOOSE i \in seps : Cardinality({j \in seps : j < i}) = k - 1
            IN  [k \in 1..(Cardinality(seps) + 1) |->
                    SubSeq(t, nth(k - 1) + 1, nth(k) - 1)] : t \in {s}})

starts_with(s, prefix) ==
    Len(s) >= Len(prefix) /\ SubSeq(s, 1, Len(prefix)) = prefix

ends_with(s, suffix) ==
    Len(s) >= Len(suffix) /\ SubSeq(s, Len(s) - Len(suffix) + 1, Len(s)) = suffix

\* a map without any key
EmptyMap == <<>>

-----------------------------------------------------------------------------
(* parser/models.rs *)

Position(x, y) == [x |-> x, y |-> y]

Outgoing(target, weight) == [target |-> target, weight |-> weight]

Block(type_, quantity, extra) == [type_ |-> type_, quantity |-> quantity, extra |-> extra]

NodeBase(id, type_, label, parent_id, extra) ==
    [id |-> id, type_ |-> type_, label |-> label, position |-> Position(0, 0),
     parent_id |-> parent_id, width |-> None, height |-> None, extra |-> extra]

BranchNode(base, outgoing, blocks) ==
    [kind |-> "Branch", base |-> base, outgoing |-> outgoing, blocks |-> blocks]
GroupNode(base) ==
    [kind |-> "Group", base |-> base, outgoing |-> <<>>, blocks |-> <<>>]
GeographicAnchorNode(base) ==
    [kind |-> "GeographicAnchor", base |-> base, outgoing |-> <<>>, blocks |-> <<>>]
GeographicWindowNode(base) ==
    [kind |-> "GeographicWindow", base |-> base, outgoing |-> <<>>, blocks |-> <<>>]

Edge(id, source, target, weight) ==
    [id |-> id, source |-> source, target |-> target, data |-> [weight |-> weight]]

Network(nodes, edges) == [nodes |-> nodes, edges |-> edges]

-----------------------------------------------------------------------------
(* query/parser.rs: the abstract syntax *)

Node(id) == [t |-> "Node", id |-> id]
Property(name, inner) == [t |-> "Property", name |-> name, inner |-> inner]
Index(idx, inner) == [t |-> "Index", idx |-> idx, inner |-> inner]
Range(start, end, inner) == [t |-> "Range", start |-> start, end |-> end, inner |-> inner]
Filter(field, operator, value, inner) ==
    [t |-> "Filter", field |-> field, operator |-> operator, value |-> value, inner |-> inner]
ScopeResolve(property, scopes, inner) ==
    [t |-> "ScopeResolve", property |-> property, scopes |-> scopes, inner |-> inner]

FilterOperator ==
    {"Equals", "NotEquals", "GreaterThan", "LessThan", "GreaterThanOrEqual", "LessThanOrEqual"}

-----------------------------------------------------------------------------
(* query/executor.rs: errors *)

NodeNotFound(id) == [t |-> "NodeNotFound", id |-> id]
PropertyNotFound(name) == [t |-> "PropertyNotFound", name |-> name]
IndexOutOfRange(idx, len) == [t |-> "IndexOutOfRange", idx |-> idx, len |-> len]
\* the message of an InvalidType is kept as a tag
InvalidType(msg) == [t |-> "InvalidType", msg |-> msg]

\* format!("Property '{}' not found in any scope", property)
NotFoundInAnyScope(property) ==
    <<"P", "r", "o", "p", "e", "r", "t", "y", " ", "'">> \o property \o
    <<"'", " ", "n", "o", "t", " ", "f", "o", "u", "n", "d", " ", "i", "n", " ",
      "a", "n", "y", " ", "s", "c", "o", "p", "e">>

-----------------------------------------------------------------------------
(* query/executor.rs: a node as a structured value *)

\* a key of the form _<name>_original
IsOriginalKey(key) == starts_with(key, <<"_">>) /\ ends_with(key, <<"_", "o", "r", "i", "g", "i", "n", "a", "l">>)

\* dim/formatter.rs format_property, with the unit library abstracted: for a
\* property with a preferred unit (unit_prefs) a numeric value (a number, or a
\* string that parses as one) becomes the string "<value> <unit>"; every
\* other value is returned as it is.
format_property(prefs, key, value) ==
    LET normalized == CASE value.k = "Number" -> Some(value.n)
                        [] value.k = "String" -> ParseF64(value.s)
                        [] OTHER -> None
    IN  IF key \in prefs /\ normalized.some /\ normalized.v >= 0
        THEN JString(NatToString(normalized.v) \o <<" ", "u">>)
        ELSE value

\* the structured value of one block: type, quantity when stated, and the
\* extra properties except the _<name>_original keys, each unit-formatted
BlockObject(prefs, b) ==
    LET keys == {key \in DOMAIN b.extra : ~IsOriginalKey(key)}
        extras == [key \in keys |-> format_property(prefs, key, toml_to_json(b.extra[key]))]
        quantity == IF b.quantity.some
                    THEN (sQuantity :> JNumber(b.quantity.v, FALSE))
                    ELSE EmptyMap
    IN  JObject(extras @@ quantity @@ (sType :> JString(b.type_)))

PositionObject(position) ==
    JObject((sX :> JNumber(position.x, FALSE)) @@ (sY :> JNumber(position.y, FALSE)))

OutgoingObject(o) ==
    JObject((sTarget :> JString(o.target)) @@ (sWeight :> JNumber(o.weight, FALSE)))

\* the match of get_node: the logical representation of a node
NodeObject(prefs, node) ==
    LET base == node.base
        common == (sId :> JString(base.id)) @@ (sType :> JString(base.type_))
                  @@ (IF base.label.some THEN (sLabel :> JString(base.label.v)) ELSE EmptyMap)
                  @@ (sPosition :> PositionObject(base.position))
        parent == IF base.parent_id.some
                  THEN (sParentId :> JString(base.parent_id.v))
                  ELSE EmptyMap
    IN  CASE node.kind = "Branch" ->
                JObject(common
                    @@ (sBlocks :> JArray([i \in 1..Len(node.blocks) |->
                                              BlockObject(prefs, node.blocks[i])]))
                    @@ (IF node.outgoing # <<>>
                        THEN (sOutgoing :> JArray([i \in 1..Len(node.outgoing) |->
                                                      OutgoingObject(node.outgoing[i])]))
                        ELSE EmptyMap)
                    @@ parent)
          [] node.kind = "Group" -> JObject(common @@ parent)
          [] OTHER -> JObject(common)

\* A faulty variant of the scan of get_node: the last node with this id is
\* taken.
FindLastNode(net, id) ==
    IF \E i \in 1..Len(net.nodes) : net.nodes[i].base.id = id
    THEN CHOOSE i \in 1..Len(net.nodes) :
            /\ net.nodes[i].base.id = id
            /\ \A j \in (i + 1)..Len(net.nodes) : net.nodes[j].base.id # id
    ELSE 0

\* the 1-based position of the first node with this id, or 0
FindNode(net, id) ==
    IF \E i \in 1..Len(net.nodes) : net.nodes[i].base.id = id
    THEN CHOOSE i \in 1..Len(net.nodes) :
            /\ net.nodes[i].base.id = id
            /\ \A j \in 1..(i - 1) : net.nodes[j].base.id # id
    ELSE 0

\* get_node
get_node(net, prefs, id) ==
    LET i == FindNode(net, id)
    IN  IF i = 0 THEN Err(NodeNotFound(id))
        ELSE Ok(NodeObject(prefs, net.nodes[i]))

-----------------------------------------------------------------------------
(* query/executor.rs: the operations on structured values *)

\* get_property: "data" on an object is the object itself
get_property(value, name) ==
    IF value.k = "Object"
    THEN IF name = sData THEN Ok(value)
         ELSE IF name \in DOMAIN value.m THEN Ok(value.m[name])
         ELSE Err(PropertyNotFound(name))
    ELSE Err(InvalidType("Cannot access property on non-object"))

\* A faulty variant of get_index: the index equal to the length passes the
\* bounds check and gives the last element.
GetIndexLenient(value, idx) ==
    IF value.k = "Array"
    THEN IF idx > Len(value.a) \/ Len(value.a) = 0
         THEN Err(IndexOutOfRange(idx, Len(value.a)))
         ELSE IF idx = Len(value.a) THEN Ok(value.a[idx])
         ELSE Ok(value.a[idx + 1])
    ELSE Err(InvalidType("Cannot index into non-array"))

\* get_index (idx is zero-based)
get_index(value, idx) ==
    IF value.k = "Array"
    THEN IF idx >= Len(value.a) THEN Err(IndexOutOfRange(idx, Len(value.a)))
         ELSE Ok(value.a[idx + 1])
    ELSE Err(InvalidType("Cannot index into non-array"))

\* A faulty variant of get_range: the end bound is validated before the start
\* bound.
RangeEndCheckedFirst(value, start, end) ==
    IF value.k = "Array"
    THEN LET len == Len(value.a)
             start_idx == IF start.some THEN start.v ELSE 0
             end_idx == IF end.some THEN end.v ELSE (IF len = 0 THEN 0 ELSE len - 1)
         IN  IF end_idx >= len THEN Err(IndexOutOfRange(end_idx, len))
             ELSE IF start_idx >= len THEN Err(IndexOutOfRange(start_idx, len))
             ELSE IF start_idx > end_idx THEN Err(InvalidType("Range start must be <= end"))
             ELSE Ok(JArray(SubSeq(value.a, start_idx + 1, end_idx + 1)))
    ELSE Err(InvalidType("Cannot apply range to non-array"))

\* A faulty variant of get_range: the end bound is excluded from the slice.
RangeExclusiveEnd(value, start, end) ==
    IF value.k = "Array"
    THEN LET len == Len(value.a)
             start_idx == IF start.some THEN start.v ELSE 0
             end_idx == IF end.some THEN end.v ELSE (IF len = 0 THEN 0 ELSE len - 1)
         IN  IF start_idx >= len THEN Err(IndexOutOfRange(start_idx, len))
             ELSE IF end_idx >= len THEN Err(IndexOutOfRange(end_idx, len))
             ELSE IF start_idx > end_idx THEN Err(InvalidType("Range start must be <= end"))
             ELSE Ok(JArray(SubSeq(value.a, start_idx + 1, end_idx)))
    ELSE Err(InvalidType("Cannot apply range to non-array"))

\* get_range: arr[start_idx..=end_idx]
get_range(value, start, end) ==
    IF value.k = "Array"
    THEN LET len == Len(value.a)
             start_idx == IF start.some THEN start.v ELSE 0
             end_idx == IF end.some THEN end.v ELSE (IF len = 0 THEN 0 ELSE len - 1)
         IN  IF start_idx >= len THEN Err(IndexOutOfRange(start_idx, len))
             ELSE IF end_idx >= len THEN Err(IndexOutOfRange(end_idx, len))
             ELSE IF start_idx > end_idx THEN Err(InvalidType("Range start must be <= end"))
             ELSE Ok(JArray(SubSeq(value.a, start_idx + 1, end_idx + 1)))
    ELSE Err(InvalidType("Cannot apply range to non-array"))

\* get_nested_property: the parts of a dotted path, looked up in turn
RECURSIVE LookupParts(_, _)
LookupParts(value, parts) ==
    IF parts = <<>> THEN Ok(value)
    ELSE LET r == get_property(value, Head(parts))
         IN  IF r.ok THEN LookupParts(r.v, Tail(parts)) ELSE r

get_nested_property(value, path) == LookupParts(value, Split(path, "."))

\* matches_value: equality of a field value with the filter's literal
matches_value(value, filter_value) ==
    CASE value.k = "String" -> value.s = filter_value
      [] value.k = "Number" ->
            LET f_val == ParseF64(filter_value)
            IN  f_val.some /\ value.n = f_val.v
      [] value.k = "Bool" ->
            LET f_val == ParseBool(filter_value)
            IN  f_val.some /\ value.b = f_val.v
      [] OTHER -> FALSE

\* compare_numeric, the comparison given by its operator
compare_numeric(value, filter_value, operator) ==
    IF value.k # "Number"
    THEN Err(InvalidType("Comparison operators only work with numbers"))
    ELSE LET f_val == ParseF64(filter_value)
         IN  IF ~f_val.some THEN Err(InvalidType("Cannot parse filter value as number"))
             ELSE Ok(CASE operator = "GreaterThan" -> value.n > f_val.v
                       [] operator = "LessThan" -> value.n < f_val.v
                       [] operator = "GreaterThanOrEqual" -> value.n >= f_val.v
                       [] operator = "LessThanOrEqual" -> value.n <= f_val.v)

\* matches_filter_value
matches_filter_value(field_value, operator, filter_value) ==
    CASE operator = "Equals" -> Ok(matches_value(field_value, filter_value))
      [] operator = "NotEquals" -> Ok(~matches_value(field_value, filter_value))
      [] OTHER -> compare_numeric(field_value, filter_value, operator)

\* the closure of apply_filter: a failed lookup and a failed comparison
\* (unwrap_or_default) both make the element not match
FilterKeeps(item, field, operator, filter_value) ==
    LET field_value == IF Contains(field, ".")
                       THEN get_nested_property(item, field)
                       ELSE get_property(item, field)
    IN  IF field_value.ok
        THEN LET m == matches_filter_value(field_value.v, operator, filter_value)
             IN  IF m.ok THEN m.v ELSE FALSE
        ELSE FALSE

\* Iterator::filter: the kept elements in their order
RECURSIVE FilterSeq(_, _, _, _)
FilterSeq(arr, field, operator, filter_value) ==
    IF arr = <<>> THEN <<>>
    ELSE (IF FilterKeeps(Head(arr), field, operator, filter_value)
          THEN <<Head(arr)>> ELSE <<>>)
         \o FilterSeq(Tail(arr), field, operator, filter_value)

\* A faulty variant of apply_filter: an element whose field lookup fails makes
\* the whole filter fail.
ApplyFilterFailingOnElement(value, field, operator, filter_value) ==
    IF value.k = "Array"
    THEN LET lookup(item) == IF Contains(field, ".")
                             THEN get_nested_property(item, field)
                             ELSE get_property(item, field)
         IN  IF \E i \in 1..Len(value.a) : ~lookup(value.a[i]).ok
             THEN Err(PropertyNotFound(field))
             ELSE Ok(JArray(FilterSeq(value.a, field, operator, filter_value)))
    ELSE Err(InvalidType("Filter can only be applied to arrays"))

\* apply_filter
apply_filter(value, field, operator, filter_value) ==
    IF value.k = "Array"
    THEN Ok(JArray(FilterSeq(value.a, field, operator, filter_value)))
    ELSE Err(InvalidType("Filter can only be applied to arrays"))

-----------------------------------------------------------------------------
(* parser/models.rs: serde serialization, used by the network-level queries *)

\* the characters of the model in byte order
Ascii == <<" ", "$", "'", "+", ",", "-", ".", "/">> \o Digits
         \o <<":", "<", "=", ">", "?">> \o Upper \o <<"[", "]", "_">> \o Lower

Code(c) == CHOOSE i \in 1..Len(Ascii) : Ascii[i] = c

\* str::cmp: a < b in byte order
RECURSIVE StrLess(_, _)
StrLess(a, b) ==
    IF b = <<>> THEN FALSE
    ELSE IF a = <<>> THEN TRUE
    ELSE IF Head(a) = Head(b) THEN StrLess(Tail(a), Tail(b))
    ELSE Code(Head(a)) < Code(Head(b))

\* the first key of a serde_json::Map (a BTreeMap: keys in sorted order)
FirstKey(m) == CHOOSE key \in DOMAIN m : \A other \in DOMAIN m \ {key} : StrLess(key, other)

\* Option<T> serializes as null or as the value
OptionToJson(o, value) == IF o.some THEN value ELSE JNull

\* toml::Value as serde_json::to_value serializes it: as toml_to_json, except
\* that a datetime becomes the one-field struct the toml crate uses for it
RECURSIVE SerializeToml(_)
SerializeToml(value) ==
    CASE value.k = "Datetime" ->
            JObject(<<"$", "_", "_", "t", "o", "m", "l", "_", "p", "r", "i", "v", "a", "t", "e",
                      "_", "d", "a", "t", "e", "t", "i", "m", "e">> :> JString(value.s))
      [] value.k = "Array" ->
            JArray([i \in 1..Len(value.a) |-> SerializeToml(value.a[i])])
      [] value.k = "Table" ->
            JObject([key \in DOMAIN value.m |-> SerializeToml(value.m[key])])
      [] OTHER -> toml_to_json(value)

\* impl From<&Block> for BlockData
BlockData(b) ==
    LET kind == IF b.type_ = <<"S", "o", "u", "r", "c", "e">> THEN <<"s", "o", "u", "r", "c", "e">>
                ELSE IF b.type_ = <<"S", "i", "n", "k">> THEN <<"s", "i", "n", "k">>
                ELSE <<"t", "r", "a", "n", "s", "f", "o", "r", "m">>
    IN  JObject((sQuantity :> JNumber(IF b.quantity.some THEN b.quantity.v ELSE 1, FALSE))
                @@ (sType :> JString(b.type_))
                @@ (<<"k", "i", "n", "d">> :> JString(kind))
                @@ (sLabel :> JString(b.type_)))

\* impl Serialize for NodeData: the custom form of a branch, the derived
\* (flattened) form of the other nodes, whose id is skipped
SerializeNode(node) ==
    LET base == node.base
    IN  IF node.kind = "Branch"
        THEN (sId :> JString(base.id))
             @@ (sPosition :> PositionObject(base.position))
             @@ (sData :> JObject(
                    (sId :> JString(base.id))
                    @@ (sLabel :> JString(IF base.label.some THEN base.label.v ELSE base.id))
                    @@ (sBlocks :> JArray([i \in 1..Len(node.blocks) |-> BlockData(node.blocks[i])]))))
             @@ (IF base.parent_id.some
                 THEN (sParentId :> JString(base.parent_id.v))
                      @@ (<<"e", "x", "t", "e", "n", "t">> :> JString(<<"p", "a", "r", "e", "n", "t">>))
                 ELSE EmptyMap)
             @@ (sType :> JString(base.type_))
        ELSE (sType :> JString(base.type_))
             @@ (sLabel :> OptionToJson(base.label, JString(IF base.label.some THEN base.label.v ELSE <<>>)))
             @@ (sPosition :> PositionObject(base.position))
             @@ (sParentId :> OptionToJson(base.parent_id,
                                  JString(IF base.parent_id.some THEN base.parent_id.v ELSE <<>>)))
             @@ (<<"w", "i", "d", "t", "h">> :> JNull)
             @@ (<<"h", "e", "i", "g", "h", "t">> :> JNull)
             @@ [key \in DOMAIN base.extra |-> SerializeToml(base.extra[key])]

\* #[derive(Serialize)] for Edge
SerializeEdge(e) ==
    JObject((sId :> JString(e.id)) @@ (<<"s", "o", "u", "r", "c", "e">> :> JString(e.source))
            @@ (sTarget :> JString(e.target))
            @@ (sData :> JObject(sWeight :> JNumber(e.data.weight, FALSE))))

-----------------------------------------------------------------------------
(* query/executor.rs: evaluation *)

\* A faulty variant of execute_network_query: an unknown collection is the
\* empty array.
NetworkQueryLenient(net, collection) ==
    IF collection = sNodes
    THEN Ok(JArray([i \in 1..Len(net.nodes) |->
                LET map == SerializeNode(net.nodes[i]) IN map[FirstKey(map)]]))
    ELSE IF collection = sEdges
    THEN Ok(JArray([i \in 1..Len(net.edges) |-> SerializeEdge(net.edges[i])]))
    ELSE Ok(JArray(<<>>))

\* execute_network_query: for "nodes", each node is serialized and the value
\* of the first entry of the resulting map is taken
execute_network_query(net, collection) ==
    IF collection = sNodes
    THEN Ok(JArray([i \in 1..Len(net.nodes) |->
                LET map == SerializeNode(net.nodes[i]) IN map[FirstKey(map)]]))
    ELSE IF collection = sEdges
    THEN Ok(JArray([i \in 1..Len(net.edges) |-> SerializeEdge(net.edges[i])]))
    ELSE Err(InvalidType("Unknown network collection"))

\* A faulty variant of the filter_map: the conversion ends at the first name
\* that is no level.
RECURSIVE ParseScopeLevelsUntilUnknown(_)
ParseScopeLevelsUntilUnknown(explicit_scopes) ==
    IF explicit_scopes = <<>> THEN <<>>
    ELSE LET name == to_lowercase(Head(explicit_scopes))
             level == CASE name = sBlock -> <<"Block">>
                        [] name = sBranch -> <<"Branch">>
                        [] name = sGroup -> <<"Group">>
                        [] name = sGlobal -> <<"Global">>
                        [] OTHER -> <<>>
         IN  IF level = <<>> THEN <<>>
             ELSE level \o ParseScopeLevelsUntilUnknown(Tail(explicit_scopes))

\* the filter_map of resolve_scoped_property_from_context: a scope name,
\* lower-cased, as a ScopeLevel; other names are dropped
RECURSIVE ParseScopeLevels(_)
ParseScopeLevels(explicit_scopes) ==
    IF explicit_scopes = <<>> THEN <<>>
    ELSE LET name == to_lowercase(Head(explicit_scopes))
             level == CASE name = sBlock -> <<"Block">>
                        [] name = sBranch -> <<"Branch">>
                        [] name = sGroup -> <<"Group">>
                        [] name = sGlobal -> <<"Global">>
                        [] OTHER -> <<>>
         IN  level \o ParseScopeLevels(Tail(explicit_scopes))

\* the 1-based position of the first node of this kind with this id, or 0
FindNodeOfKind(net, kind, id) ==
    LET hit(i) == net.nodes[i].kind = kind /\ net.nodes[i].base.id = id
    IN  IF \E i \in 1..Len(net.nodes) : hit(i)
        THEN CHOOSE i \in 1..Len(net.nodes) : hit(i) /\ \A j \in 1..(i - 1) : ~hit(j)
        ELSE 0

\* the group a branch names as its parent, if the network has it
OwningGroup(net, branch_node) ==
    IF branch_node.base.parent_id.some
    THEN LET g == FindNodeOfKind(net, "Group", branch_node.base.parent_id.v)
         IN  IF g = 0 THEN None ELSE Some(net.nodes[g])
    ELSE None

\* A faulty variant of resolve_scoped_property_from_context: the scopes the
\* query names are ignored and the configured chain is always walked.
ScopedResolveIgnoringExplicit(net, cfg, property, explicit_scopes, context) ==
    IF ~context.node_id.some
    THEN Err(InvalidType("Scope resolution requires a node context"))
    ELSE IF ~context.block_index.some
    THEN Err(InvalidType("Scope resolution requires a block context"))
    ELSE
        LET b == FindNodeOfKind(net, "Branch", context.node_id.v)
        IN  IF b = 0 THEN Err(NodeNotFound(context.node_id.v))
            ELSE IF context.block_index.v >= Len(net.nodes[b].blocks)
            THEN Err(IndexOutOfRange(context.block_index.v, Len(net.nodes[b].blocks)))
            ELSE
                LET value == resolve_property(cfg, property,
                                              net.nodes[b].blocks[context.block_index.v + 1],
                                              net.nodes[b], OwningGroup(net, net.nodes[b]))
                IN  IF value.some THEN Ok(toml_to_json(value.v))
                    ELSE Err(PropertyNotFound(NotFoundInAnyScope(property)))

\* A faulty variant of resolve_scoped_property_from_context: a context without
\* a block index is read as block 0.
ScopedResolveDefaultBlock(net, cfg, property, explicit_scopes, context) ==
    IF ~context.node_id.some
    THEN Err(InvalidType("Scope resolution requires a node context"))
    ELSE
        LET block_index == IF context.block_index.some THEN context.block_index.v ELSE 0
            b == FindNodeOfKind(net, "Branch", context.node_id.v)
        IN  IF b = 0 THEN Err(NodeNotFound(context.node_id.v))
            ELSE IF block_index >= Len(net.nodes[b].blocks)
            THEN Err(IndexOutOfRange(block_index, Len(net.nodes[b].blocks)))
            ELSE
                LET block == net.nodes[b].blocks[block_index + 1]
                    group == OwningGroup(net, net.nodes[b])
                    scope_levels == ParseScopeLevels(explicit_scopes)
                    value ==
                        IF scope_levels # <<>>
                        THEN LET r == resolve_property_with_explicit_scopes(
                                          cfg, property, block, net.nodes[b], group, scope_levels)
                             IN  IF r.some THEN Some(r.v.value) ELSE None
                        ELSE resolve_property(cfg, property, block, net.nodes[b], group)
                IN  IF value.some THEN Ok(toml_to_json(value.v))
                    ELSE Err(PropertyNotFound(NotFoundInAnyScope(property)))

\* resolve_scoped_property_from_context
resolve_scoped_property_from_context(net, cfg, property, explicit_scopes, context) ==
    IF ~context.node_id.some
    THEN Err(InvalidType("Scope resolution requires a node context"))
    ELSE IF ~context.block_index.some
    THEN Err(InvalidType("Scope resolution requires a block context"))
    ELSE
        LET node_id == context.node_id.v
            block_index == context.block_index.v
            b == FindNodeOfKind(net, "Branch", node_id)
        IN  IF b = 0 THEN Err(NodeNotFound(node_id))
            ELSE
            LET branch_node == net.nodes[b]
            IN  IF block_index >= Len(branch_node.blocks)
                THEN Err(IndexOutOfRange(block_index, Len(branch_node.blocks)))
                ELSE
                LET block == branch_node.blocks[block_index + 1]
                    group == OwningGroup(net, branch_node)
                    scope_levels == ParseScopeLevels(explicit_scopes)
                    value ==
                        IF scope_levels # <<>>
                        THEN LET r == resolve_property_with_explicit_scopes(
                                          cfg, property, block, branch_node, group, scope_levels)
                             IN  IF r.some THEN Some(r.v.value) ELSE None
                        ELSE resolve_property(cfg, property, block, branch_node, group)
                IN  IF value.some THEN Ok(toml_to_json(value.v))
                    ELSE Err(PropertyNotFound(NotFoundInAnyScope(property)))


\* QueryExecutor: the network, the resolver's config when a resolver is set,
\* and the unit preferences
QueryExecutor(net, cfg, resolver, prefs) ==
    [network |-> net, config |-> cfg, scope_resolver |-> resolver, unit_preferences |-> prefs]

\* QueryContext
QueryContext(node_id, block_index) == [node_id |-> node_id, block_index |-> block_index]

\* the outcome of one step of the walk: the result and the context it leaves
Step(res, context) == [res |-> res, context |-> context]

\* does the value look like a block: an object with a string "type"
IsBlockShaped(value) ==
    value.k = "Object" /\ sType \in DOMAIN value.m /\ AsStr(value.m[sType]).some

\* execute_with_context: inner first, then the node's own operation.  Index
\* writes its index into the context before it evaluates its inner path.
RECURSIVE execute_with_context(_, _, _)
execute_with_context(ex, path, context) ==
    CASE path.t = "Node" ->
            Step(get_node(ex.network, ex.unit_preferences, path.id),
                 [context EXCEPT !.node_id = Some(path.id)])
      [] path.t = "Property" ->
            LET in == execute_with_context(ex, path.inner, context)
            IN  IF ~in.res.ok THEN in
                ELSE
                LET value == in.res.v
                    direct == get_property(value, path.name)
                IN  IF IsBlockShaped(value) /\ in.context.block_index.some
                       /\ in.context.node_id.some
                    THEN IF direct.ok THEN Step(direct, in.context)
                         ELSE IF direct.e.t = "PropertyNotFound"
                         THEN IF ex.scope_resolver
                              THEN Step(resolve_scoped_property_from_context(
                                            ex.network, ex.config, path.name, <<>>, in.context),
                                        in.context)
                              ELSE Step(Err(PropertyNotFound(path.name)), in.context)
                         ELSE Step(direct, in.context)
                    ELSE Step(direct, in.context)
      [] path.t = "Index" ->
            LET in == execute_with_context(ex, path.inner,
                          [context EXCEPT !.block_index = Some(path.idx)])
            IN  IF ~in.res.ok THEN in
                ELSE Step(get_index(in.res.v, path.idx), in.context)
      [] path.t = "Range" ->
            LET in == execute_with_context(ex, path.inner, context)
            IN  IF ~in.res.ok THEN in
                ELSE Step(get_range(in.res.v, path.start, path.end), in.context)
      [] path.t = "Filter" ->
            LET in == execute_with_context(ex, path.inner, context)
            IN  IF ~in.res.ok THEN in
                ELSE Step(apply_filter(in.res.v, path.field, path.operator, path.value),
                          in.context)
      [] path.t = "ScopeResolve" ->
            LET in == execute_with_context(ex, path.inner, context)
            IN  IF ~in.res.ok THEN in
                ELSE IF ex.scope_resolver
                THEN Step(resolve_scoped_property_from_context(
                              ex.network, ex.config, path.property, path.scopes, in.context),
                          in.context)
                ELSE Step(Err(InvalidType("Scope resolution requires scope resolver")),
                          in.context)

\* A faulty variant of execute: the walk starts from the context the call
\* before it ended with, when there was one.
ExecuteOnKeptContext(ex, path) ==
    IF path.t = "Property" /\ path.inner.t = "Node" /\ path.inner.id = sNetwork
    THEN execute_network_query(ex.network, path.name)
    ELSE execute_with_context(ex, path,
                              IF op = "execute" /\ "context" \in DOMAIN arg
                              THEN arg.context
                              ELSE QueryContext(None, None)).res

\* execute: a network-level query is Property(name, Node("network")) at the
\* top of the path; everything else is walked with a fresh context
execute(ex, path) ==
    IF path.t = "Property" /\ path.inner.t = "Node" /\ path.inner.id = sNetwork
    THEN execute_network_query(ex.network, path.name)
    ELSE execute_with_context(ex, path, QueryContext(None, None)).res

-----------------------------------------------------------------------------
(* query/parser.rs: parsing *)

EmptyPath == [t |-> "EmptyPath"]
\* the message of an InvalidIndex is kept as a tag
InvalidIndex(msg) == [t |-> "InvalidIndex", msg |-> msg]
UnexpectedEnd == [t |-> "UnexpectedEnd"]
InvalidCharacter(c, pos) == [t |-> "InvalidCharacter", c |-> c, pos |-> pos]

\* the outcome of a call that aborts: a slice whose start lies behind its end
Panic == [ok |-> FALSE, e |-> [t |-> "panic"]]

\* str::find(&str): the 1-based position of the first occurrence, or 0
FindStr(s, pat) ==
    TheOne({LET at(i) == i + Len(pat) - 1 <= Len(t) /\ SubSeq(t, i, i + Len(pat) - 1) = pat
            IN  IF \E i \in 1..Len(t) : at(i)
                THEN CHOOSE i \in 1..Len(t) : at(i) /\ \A j \in 1..(i - 1) : ~at(j)
                ELSE 0 : t \in {s}})

\* str::trim, for the blank
RECURSIVE Trim(_)
Trim(s) ==
    IF s # <<>> /\ Head(s) = " " THEN Trim(Tail(s))
    ELSE IF s # <<>> /\ s[Len(s)] = " " THEN Trim(SubSeq(s, 1, Len(s) - 1))
    ELSE s

\* [&str]::join
RECURSIVE Join(_, _)
Join(parts, sep) ==
    IF parts = <<>> THEN <<>>
    ELSE IF Len(parts) = 1 THEN parts[1]
    ELSE parts[1] \o sep \o Join(Tail(parts), sep)

\* A faulty variant of parse_range: a part whose bound is no number is taken
\* for no range at all.
ParseRangeLenient(part) ==
    IF Contains(part, ":") /\ Len(Split(part, ":")) = 2
    THEN LET parts == Split(part, ":")
             start == IF parts[1] = <<>> THEN Some(None)
                      ELSE LET n == ParseUsize(parts[1])
                           IN  IF n.some THEN Some(n) ELSE None
             end == IF parts[2] = <<>> THEN Some(None)
                    ELSE LET n == ParseUsize(parts[2])
                         IN  IF n.some THEN Some(n) ELSE None
         IN  IF ~start.some \/ ~end.some THEN Ok(None)
             ELSE Ok(Some(<<start.v, end.v>>))
    ELSE Ok(None)

\* parse_range: Ok(Some(<<start, end>>)) for one colon, Ok(None) otherwise
parse_range(part) ==
    IF Contains(part, ":") /\ Len(Split(part, ":")) = 2
    THEN LET parts == Split(part, ":")
             start == IF parts[1] = <<>> THEN Some(None)
                      ELSE LET n == ParseUsize(parts[1])
                           IN  IF n.some THEN Some(n) ELSE None
             end == IF parts[2] = <<>> THEN Some(None)
                    ELSE LET n == ParseUsize(parts[2])
                         IN  IF n.some THEN Some(n) ELSE None
         IN  IF ~start.some THEN Err(InvalidIndex("Invalid range start"))
             ELSE IF ~end.some THEN Err(InvalidIndex("Invalid range end"))
             ELSE Ok(Some(<<start.v, end.v>>))
    ELSE Ok(None)

\* one arm of parse_filter_expression: the expression cut at an operator
CutAt(expr, pos, width, operator) ==
    Ok([field |-> Trim(SubSeq(expr, 1, pos - 1)),
        operator |-> operator,
        value |-> Trim(SubSeq(expr, pos + width, Len(expr)))])

\* A faulty variant of parse_filter_expression: the one-character operators
\* are tried before the two-character ones.
FilterExpressionShortFirst(expr) ==
    IF Find(expr, ">") # 0 THEN CutAt(expr, Find(expr, ">"), 1, "GreaterThan")
    ELSE IF Find(expr, "<") # 0 THEN CutAt(expr, Find(expr, "<"), 1, "LessThan")
    ELSE IF Find(expr, "=") # 0 THEN CutAt(expr, Find(expr, "="), 1, "Equals")
    ELSE Err(InvalidCharacter("=", 0))

\* parse_filter_expression: the operators are tried in this order
parse_filter_expression(expr) ==
    IF FindStr(expr, <<">", "=">>) # 0
    THEN CutAt(expr, FindStr(expr, <<">", "=">>), 2, "GreaterThanOrEqual")
    ELSE IF FindStr(expr, <<"<", "=">>) # 0
    THEN CutAt(expr, FindStr(expr, <<"<", "=">>), 2, "LessThanOrEqual")
    ELSE IF FindStr(expr, <<"!", "=">>) # 0
    THEN CutAt(expr, FindStr(expr, <<"!", "=">>), 2, "NotEquals")
    ELSE IF Find(expr, ">") # 0 THEN CutAt(expr, Find(expr, ">"), 1, "GreaterThan")
    ELSE IF Find(expr, "<") # 0 THEN CutAt(expr, Find(expr, "<"), 1, "LessThan")
    ELSE IF Find(expr, "=") # 0 THEN CutAt(expr, Find(expr, "="), 1, "Equals")
    ELSE Err(InvalidCharacter("=", 0))

\* parse_filter: Ok(Some([property, field, operator, value])) for a part with
\* '[' and ']', Ok(None) without; the slice between the first '[' and the
\* first ']' aborts when the ']' comes first
parse_filter(part) ==
    LET bracket_start == Find(part, "[")
        bracket_end == Find(part, "]")
    IN  IF bracket_start # 0 /\ bracket_end # 0
        THEN IF bracket_end < bracket_start THEN Panic
             ELSE LET e == parse_filter_expression(
                               SubSeq(part, bracket_start + 1, bracket_end - 1))
                  IN  IF ~e.ok THEN e
                      ELSE Ok(Some([property |-> SubSeq(part, 1, bracket_start - 1),
                                    field |-> e.v.field,
                                    operator |-> e.v.operator,
                                    value |-> e.v.value]))
        ELSE Ok(None)

\* parse_network_query
parse_network_query(path) ==
    LET bracket_start == Find(path, "[")
        bracket_end == Find(path, "]")
    IN  IF path = sNodes THEN Ok(Property(sNodes, Node(sNetwork)))
        ELSE IF path = sEdges THEN Ok(Property(sEdges, Node(sNetwork)))
        ELSE IF bracket_start # 0 /\ bracket_end # 0
        THEN IF bracket_end < bracket_start THEN Panic
             ELSE LET collection == SubSeq(path, 1, bracket_start - 1)
                      e == parse_filter_expression(
                               SubSeq(path, bracket_start + 1, bracket_end - 1))
                  IN  IF collection = sNodes \/ collection = sEdges
                      THEN IF ~e.ok THEN e
                           ELSE Ok(Filter(e.v.field, e.v.operator, e.v.value,
                                          Property(collection, Node(sNetwork))))
                      ELSE Err(InvalidCharacter("?", 0))
        ELSE Err(InvalidCharacter("?", 0))


\* A faulty variant of the filter arm: the filter is put over a property
\* even when the name before the bracket is empty.
WithFilterOverEmptyName(f, current) ==
    Filter(f.field, f.operator, f.value, Property(f.property, current))

\* a parsed filter applied to the path built so far: over the path itself for
\* an empty property name, over Property(name, path) otherwise
WithFilter(f, current) ==
    Filter(f.field, f.operator, f.value,
           IF f.property = <<>> THEN current ELSE Property(f.property, current))

\* the filter, range, index and property arms of the segment loop, for a part
\* that was not taken as a fused range and filter
PlainSegment(part, current) ==
    LET f == parse_filter(part)
        r == parse_range(part)
        index == ParseUsize(part)
    IN  IF ~f.ok THEN f
        ELSE IF f.v.some THEN Ok(WithFilter(f.v.v, current))
        ELSE IF ~r.ok THEN r
        ELSE IF r.v.some THEN Ok(Range(r.v.v[1], r.v.v[2], current))
        ELSE IF index.some THEN Ok(Index(index.v, current))
        ELSE Ok(Property(part, current))

\* A faulty variant of the segment loop's turn: a fused range and filter is
\* built with the filter inside the range.
SegmentFilterInside(part, current) ==
    IF part = <<>> THEN Ok(current)
    ELSE IF Contains(part, ":") /\ Contains(part, "[")
    THEN LET bracket_start == Find(part, "[")
             r == parse_range(SubSeq(part, 1, bracket_start - 1))
             f == parse_filter(SubSeq(part, bracket_start, Len(part)))
         IN  IF ~r.ok THEN r
             ELSE IF r.v.some
             THEN IF ~f.ok THEN f
                  ELSE IF f.v.some
                  THEN Ok(Range(r.v.v[1], r.v.v[2],
                                Filter(f.v.v.field, f.v.v.operator, f.v.v.value, current)))
                  ELSE Ok(Range(r.v.v[1], r.v.v[2], current))
             ELSE PlainSegment(part, current)
    ELSE PlainSegment(part, current)

\* one turn of the segment loop: the path built so far, wrapped by this part
Segment(part, current) ==
    IF part = <<>> THEN Ok(current)
    ELSE IF Contains(part, ":") /\ Contains(part, "[")
    THEN LET bracket_start == Find(part, "[")
             range_part == SubSeq(part, 1, bracket_start - 1)
             filter_part == SubSeq(part, bracket_start, Len(part))
             r == parse_range(range_part)
         IN  IF ~r.ok THEN r
             ELSE IF r.v.some
             THEN LET ranged == Range(r.v.v[1], r.v.v[2], current)
                      f == parse_filter(filter_part)
                  IN  IF ~f.ok THEN f
                      ELSE IF f.v.some
                      THEN Ok(Filter(f.v.v.field, f.v.v.operator, f.v.v.value, ranged))
                      ELSE Ok(ranged)
             ELSE PlainSegment(part, current)
    ELSE PlainSegment(part, current)

\* A faulty variant of the segment loop: an empty part ends the loop instead
\* of being skipped.
RECURSIVE SegmentsStopAtEmpty(_, _)
SegmentsStopAtEmpty(parts, current) ==
    IF parts = <<>> \/ Head(parts) = <<>> THEN Ok(current)
    ELSE TheOne({IF ~next.ok THEN next ELSE SegmentsStopAtEmpty(Tail(parts), next.v) :
                    next \in {Segment(Head(parts), current)}})

\* the segment loop over the parts after the first
RECURSIVE Segments(_, _)
Segments(parts, current) ==
    IF parts = <<>> THEN Ok(current)
    ELSE TheOne({IF ~next.ok THEN next ELSE Segments(Tail(parts), next.v) :
                    next \in {Segment(Head(parts), current)}})

\* str::split_once('?')
SplitOnce(s, c) ==
    LET i == Find(s, c)
    IN  IF i = 0 THEN None
        ELSE Some(<<SubSeq(s, 1, i - 1), SubSeq(s, i + 1, Len(s))>>)

sScopeEq == <<"s", "c", "o", "p", "e", "=">>

\* parse_query_path
RECURSIVE parse_query_path(_)
parse_query_path(path) ==
    LET q == SplitOnce(path, "?")
        parts == Split(path, "/")
    IN  IF path = <<>> THEN Err(EmptyPath)
        ELSE IF starts_with(path, sNodes) \/ starts_with(path, sEdges)
        THEN parse_network_query(path)
        ELSE IF q.some /\ starts_with(q.v[2], sScopeEq)
        THEN LET base_path == q.v[1]
                 scope_str == SubSeq(q.v[2], Len(sScopeEq) + 1, Len(q.v[2]))
                 inner_parts == Split(base_path, "/")
                 property == inner_parts[Len(inner_parts)]
                 names == Split(scope_str, ",")
                 scopes == [i \in 1..Len(names) |-> Trim(names[i])]
                 inner_base == IF Len(inner_parts) > 1
                               THEN Join(SubSeq(inner_parts, 1, Len(inner_parts) - 1), <<"/">>)
                               ELSE inner_parts[1]
                 inner == parse_query_path(inner_base)
             IN  IF ~inner.ok THEN inner
                 ELSE Ok(ScopeResolve(property, scopes, inner.v))
        ELSE Segments(Tail(parts), Node(parts[1]))

-----------------------------------------------------------------------------
(* Inputs: names, values and the bounded families the specifications draw from *)

\* the longest explicit scope list passed to the resolver
MaxScopes == 3

nP == <<"p">>
nQ == <<"q">>
PropertyNames == {nP, nQ}

tPipe == <<"P">>
tComp == <<"C">>
BlockTypes == {tPipe, tComp}

idX == <<"x">>
idG == <<"g">>

sBranchNode == <<"b", "r", "a", "n", "c", "h", "N", "o", "d", "e">>
sLabeledGroup == <<"l", "a", "b", "e", "l", "e", "d", "G", "r", "o", "u", "p">>

\* the sequences over S of length at most n
RECURSIVE SeqsUpTo(_, _)
SeqsUpTo(S, n) ==
    IF n = 0 THEN {<<>>}
    ELSE LET shorter == SeqsUpTo(S, n - 1)
         IN  shorter \cup {Append(q, x) : q \in {r \in shorter : Len(r) = n - 1}, x \in S}

\* a property map that has p with this value, or has not
WithP(present, value) == IF present THEN (nP :> value) ELSE EmptyMap

\* the value p has at each level, when the level has it
BlockValue == TInteger(1)
BranchValue == TFloat(2)
GroupValue == TDatetime(<<"d">>)
GlobalValue == TInteger(4)

GroupOf(hasP) == GroupNode(NodeBase(idG, sLabeledGroup, None, None, WithP(hasP, GroupValue)))

\* the rules the configuration may hold for p
RuleChoices ==
    {EmptyMap,
     nP :> Simple(<<"Branch", "Global">>),
     nP :> Complex(<<"Group", "Block">>, EmptyMap),
     nP :> Complex(<<"Group", "Block">>, tComp :> <<"Global">>)}

GeneralChoices == {default_general_inheritance, <<"Global", "Block">>}

\* Config: q is a global property of every configuration
ConfigOf(globalHasP, general, rules) ==
    [properties |-> WithP(globalHasP, GlobalValue) @@ (nQ :> TString(<<"q">>)),
     inheritance |-> [general |-> general, rules |-> rules]]

Idle == op = "idle" /\ arg = <<>> /\ out = <<>>

\* the caller takes the outcome; the next call starts from the same objects
Return ==
    /\ op # "idle"
    /\ op' = "idle" /\ arg' = <<>> /\ out' = <<>>
    /\ UNCHANGED <<network, config, scope_resolver, unit_prefs>>

-----------------------------------------------------------------------------
(* SpecScope: the ScopeResolver called directly *)

\* one branch with one block, and possibly a group
InitScope ==
    /\ \E type \in BlockTypes, blockHasP \in BOOLEAN, branchHasP \in BOOLEAN,
          group \in {<<>>, <<GroupOf(FALSE)>>, <<GroupOf(TRUE)>>} :
          network = Network(
              <<BranchNode(NodeBase(idX, sBranchNode, None, None, WithP(branchHasP, BranchValue)),
                           <<>>,
                           <<Block(type, None, WithP(blockHasP, BlockValue))>>)>> \o group,
              <<>>)
    /\ \E globalHasP \in BOOLEAN, general \in GeneralChoices, rules \in RuleChoices :
          config = ConfigOf(globalHasP, general, rules)
    /\ scope_resolver = TRUE
    /\ unit_prefs = {}
    /\ Idle

\* the group arguments a caller can pass: none, or a group of the network
GroupArgs ==
    {None} \cup {Some(network.nodes[i]) : i \in {j \in 1..Len(network.nodes) :
                                                    network.nodes[j].kind = "Group"}}

ResolveArgs(property, group) ==
    [property |-> property, block |-> network.nodes[1].blocks[1],
     branch |-> network.nodes[1], group |-> group]

ResolveExplicit ==
    /\ Idle
    /\ \E property \in PropertyNames, group \in GroupArgs,
          scopes \in SeqsUpTo(ScopeLevel, MaxScopes) :
          LET a == ResolveArgs(property, group)
          IN  /\ op' = "resolve_property_with_explicit_scopes"
              /\ arg' = [a EXCEPT !.property = property] @@ [explicit_scopes |-> scopes]
              /\ out' = resolve_property_with_explicit_scopes(
                            config, property, a.block, a.branch, group, scopes)
    /\ UNCHANGED <<network, config, scope_resolver, unit_prefs>>

ResolveWithScope ==
    /\ Idle
    /\ \E property \in PropertyNames, group \in GroupArgs :
          LET a == ResolveArgs(property, group)
          IN  /\ op' = "resolve_property_with_scope"
              /\ arg' = a
              /\ out' = resolve_property_with_scope(config, property, a.block, a.branch, group)
    /\ UNCHANGED <<network, config, scope_resolver, unit_prefs>>

ResolveProperty ==
    /\ Idle
    /\ \E property \in PropertyNames, group \in GroupArgs :
          LET a == ResolveArgs(property, group)
          IN  /\ op' = "resolve_property"
              /\ arg' = a
              /\ out' = resolve_property(config, property, a.block, a.branch, group)
    /\ UNCHANGED <<network, config, scope_resolver, unit_prefs>>

GetScopeChainForProperty ==
    /\ Idle
    /\ \E property \in PropertyNames, block_type \in {None} \cup {Some(t) : t \in BlockTypes} :
          /\ op' = "get_scope_chain_for_property"
          /\ arg' = [property |-> property, block_type |-> block_type]
          /\ out' = get_scope_chain_for_property(config, property, block_type)
    /\ UNCHANGED <<network, config, scope_resolver, unit_prefs>>

HasGlobalProperty ==
    /\ Idle
    /\ \E property \in PropertyNames :
          /\ op' = "has_global_property"
          /\ arg' = [property |-> property]
          /\ out' = has_global_property(config, property)
    /\ UNCHANGED <<network, config, scope_resolver, unit_prefs>>

NextScope ==
    \/ ResolveExplicit
    \/ ResolveWithScope
    \/ ResolveProperty
    \/ GetScopeChainForProperty
    \/ HasGlobalProperty
    \/ Return

SpecScope == InitScope /\ [][NextScope]_vars

-----------------------------------------------------------------------------
(* Spec: the QueryExecutor on paths built as syntax trees, over networks     *)
(* whose scope levels vary                                                   *)

\* the largest index and range bound a query names
MaxIndex == 2

nFoo == <<"f", "o", "o">>

\* branch x with two blocks, of which the first varies, and possibly group g
ScopeNetworks ==
    {Network(
        <<BranchNode(NodeBase(idX, sBranchNode, Some(<<"X">>), parent,
                              WithP(branchHasP, BranchValue)),
                     <<>>,
                     <<Block(type, None, WithP(blockHasP, BlockValue)),
                       Block(tPipe, Some(2), EmptyMap)>>)>> \o group,
        <<>>) :
        type \in BlockTypes, blockHasP \in BOOLEAN, branchHasP \in BOOLEAN,
        parent \in {None, Some(idG)},
        group \in {<<>>, <<GroupOf(FALSE)>>, <<GroupOf(TRUE)>>}}

\* the configurations of Spec: the default one, one with another general
\* list, one with a Simple and one with a Complex rule for p
ScopeConfigs ==
    {ConfigOf(globalHasP, c[1], c[2]) :
        globalHasP \in BOOLEAN,
        c \in {<<default_general_inheritance, EmptyMap>>,
               <<<<"Global", "Block">>, EmptyMap>>,
               <<default_general_inheritance, nP :> Simple(<<"Branch", "Global">>)>>,
               <<default_general_inheritance,
                 nP :> Complex(<<"Group", "Block">>, tComp :> <<"Global">>)>>}}

Init ==
    /\ network \in ScopeNetworks
    /\ config \in ScopeConfigs
    /\ scope_resolver \in BOOLEAN
    /\ unit_prefs = {}
    /\ Idle

\* the inner paths that lead to a node, its blocks, one block or one value
ContextPaths ==
    LET roots == {Node(idX), Node(idG)}
        blocks == {Property(sBlocks, r) : r \in roots}
        block == {Index(i, b) : i \in 0..MaxIndex, b \in blocks}
    IN  roots \cup blocks \cup block
        \cup {Property(nP, b) : b \in block}
        \cup {Index(i, r) : i \in 0..MaxIndex, r \in {Node(idX)}}

\* the scope lists a query may carry
ScopeNameLists ==
    {<<>>, <<sGlobal>>, <<sBlock, sGlobal>>, <<sGroup, sBranch>>,
     <<<<"G", "l", "o", "b", "a", "l">>>>, <<<<"z">>>>, <<<<"z">>, sBranch>>, <<<<>>>>}

\* the paths Spec evaluates
ScopeQueries ==
    ContextPaths
    \cup {Property(name, inner) : name \in {nP, nQ, nFoo, sType, sData}, inner \in ContextPaths}
    \cup {ScopeResolve(name, scopes, inner) :
            name \in {nP, nFoo}, scopes \in ScopeNameLists, inner \in ContextPaths}
    \cup {Index(i, Property(name, Node(r))) :
            i \in 0..MaxIndex, name \in {nP, nFoo}, r \in {idX, idG}}

TheExecutor == QueryExecutor(network, config, scope_resolver, unit_prefs)

\* QueryExecutor::execute on a path the caller built
Execute ==
    /\ Idle
    /\ \E path \in ScopeQueries :
          /\ op' = "execute"
          /\ arg' = [text |-> None, path |-> Ok(path)]
          /\ out' = execute(TheExecutor, path)
    /\ UNCHANGED <<network, config, scope_resolver, unit_prefs>>

Next ==
    \/ Execute
    \/ Return

Spec == Init /\ [][Next]_vars

-----------------------------------------------------------------------------
(* SpecArray: query texts parsed and executed, as query_network does, over   *)
(* networks whose branch x has a varying list of blocks                      *)

\* the most blocks branch x has
MaxBlocks == 3

\* the largest bound a range text names
MaxBound == 2

nW == <<"w">>
idE == <<"e">>

\* the blocks branch x is built from: p a number, p a string, no p
BlockKinds ==
    {Block(tPipe, None, nP :> TInteger(1)),
     Block(tComp, None, nP :> TInteger(3)),
     Block(tComp, None, nP :> TString(<<"a">>)),
     Block(tPipe, Some(2), EmptyMap)}

ArrayNetworks ==
    {Network(<<BranchNode(NodeBase(idX, sBranchNode, None, None, nW :> TInteger(5)),
                          <<>>, blocks),
               GroupOf(TRUE)>>,
             edges) :
        blocks \in SeqsUpTo(BlockKinds, MaxBlocks),
        edges \in {<<>>, <<Edge(idE, idX, idG, 1)>>}}

InitArray ==
    /\ network \in ArrayNetworks
    /\ config = ConfigOf(TRUE, default_general_inheritance, EmptyMap)
    /\ scope_resolver = TRUE
    /\ unit_prefs = {}
    /\ Idle

\* an optional bound as it is written in a range text
BoundText(bound) == IF bound.some THEN NatToString(bound.v) ELSE <<>>

Bounds == {None} \cup {Some(n) : n \in 0..MaxBound}

RangeText(start, end) == BoundText(start) \o <<":">> \o BoundText(end)

\* the filters of the query texts, as field, operator and literal
BlockFilters ==
    {<<sType, "Equals", tComp>>, <<sType, "NotEquals", tComp>>,
     <<nP, "GreaterThan", <<"1">>>>, <<nP, "LessThanOrEqual", <<"1">>>>,
     <<nP, "LessThan", <<"a">>>>, <<sQuantity, "GreaterThanOrEqual", <<"2">>>>}

CollectionFilters ==
    {<<sType, "Equals", sBranchNode>>, <<sId, "NotEquals", idX>>,
     <<sTarget, "Equals", idG>>, <<sWeight, "GreaterThan", <<"0">>>>}

\* the spelling of an operator in a query text
OperatorText(operator) ==
    CASE operator = "Equals" -> <<"=">>
      [] operator = "NotEquals" -> <<"!", "=">>
      [] operator = "GreaterThan" -> <<">">>
      [] operator = "LessThan" -> <<"<">>
      [] operator = "GreaterThanOrEqual" -> <<">", "=">>
      [] operator = "LessThanOrEqual" -> <<"<", "=">>

FilterText(f) == <<"[">> \o f[1] \o OperatorText(f[2]) \o f[3] \o <<"]">>

xBlocks == idX \o <<"/">> \o sBlocks

\* the forms of query text SpecArray runs
RangeQueries == {xBlocks \o <<"/">> \o RangeText(a, b) : a \in Bounds, b \in Bounds}
FusedQueries ==
    {xBlocks \o <<"/">> \o RangeText(a, b) \o FilterText(f) :
        a \in Bounds, b \in Bounds, f \in BlockFilters}
SeparateQueries ==
    {xBlocks \o FilterText(f) \o <<"/">> \o RangeText(a, b) :
        a \in Bounds, b \in Bounds, f \in BlockFilters}
FilterQueries == {xBlocks \o FilterText(f) : f \in BlockFilters}
CollectionQueries ==
    {sNodes, sEdges}
    \cup {c \o FilterText(f) : c \in {sNodes, sEdges}, f \in CollectionFilters}

\* an index on the blocks, far beyond them, on the node and on its id
IndexQueries ==
    {xBlocks \o <<"/">> \o NatToString(i) : i \in 0..MaxBound}
    \cup {xBlocks \o <<"/", "9", "9">>, idX \o <<"/", "0">>, idX \o <<"/">> \o sId \o <<"/", "0">>}

\* the type and the quantity of one block
BlockFieldQueries ==
    {xBlocks \o <<"/">> \o NatToString(i) \o <<"/">> \o name :
        i \in 0..MaxBound, name \in {sType, sQuantity}}

\* p of a block selected from the filtered or sliced blocks, by fallback and
\* by an explicit scope list
SelectedBlockQueries ==
    {xBlocks \o selection \o <<"/">> \o NatToString(i) \o <<"/">> \o nP \o suffix :
        selection \in {FilterText(<<sQuantity, "GreaterThanOrEqual", <<"2">>>>),
                       FilterText(<<sType, "Equals", tComp>>),
                       <<"/">> \o RangeText(Some(1), None)},
        i \in 0..1,
        suffix \in {<<>>, <<"?">> \o sScopeEq \o sBlock \o <<",">> \o sGlobal}}

\* a range on the node and on its id
NonArrayRangeQueries ==
    {idX \o <<"/">> \o RangeText(Some(0), Some(1)), idX \o <<"/">> \o sId \o <<"/", ":">>}

ArrayQueries ==
    RangeQueries \cup FusedQueries \cup SeparateQueries \cup FilterQueries
    \cup CollectionQueries \cup IndexQueries \cup BlockFieldQueries
    \cup SelectedBlockQueries \cup NonArrayRangeQueries

\* query_network: the text is parsed and the path executed with a resolver;
\* a parse error ends the call before anything is executed
QueryNetwork ==
    /\ Idle
    /\ \E query_str \in ArrayQueries :
          \E query_path \in {parse_query_path(query_str)} :
              /\ op' = "query_network"
              /\ arg' = [text |-> Some(query_str), path |-> query_path]
              /\ out' = IF query_path.ok
                        THEN execute(TheExecutor, query_path.v)
                        ELSE query_path
    /\ UNCHANGED <<network, config, scope_resolver, unit_prefs>>

NextArray ==
    \/ QueryNetwork
    \/ Return

SpecArray == InitArray /\ [][NextArray]_vars

-----------------------------------------------------------------------------
(* Properties of the scope resolver (SpecScope) *)

\* the stores of the four levels for a block, its branch and an optional group
StoresOf(cfg, block, branch, group) ==
    [level \in ScopeLevel |->
        CASE level = "Block" -> Some(block.extra)
          [] level = "Branch" -> Some(branch.base.extra)
          [] level = "Group" -> IF group.some THEN Some(group.v.base.extra) ELSE None
          [] level = "Global" -> Some(cfg.properties)]

\* the positions of a chain whose level has the property
Hits(stores, chain, property) ==
    {i \in 1..Len(chain) : stores[chain[i]].some /\ property \in DOMAIN stores[chain[i]].v}

\* the value and level at the least such position, if there is one
FirstMatch(stores, chain, property) ==
    LET hits == Hits(stores, chain, property)
    IN  IF hits = {} THEN None
        ELSE LET i == CHOOSE i \in hits : \A j \in hits : i <= j
             IN  Some([value |-> stores[chain[i]].v[property], level |-> chain[i]])

\* C1: resolve_property_with_explicit_scopes returns the value and level of
\* the first level of the given list whose store has the property (a later
\* level never overrides an earlier one), and None when no listed level has it.
C1_FirstListedLevelWins ==
    op = "resolve_property_with_explicit_scopes" =>
        out = FirstMatch(StoresOf(config, arg.block, arg.branch, arg.group),
                         arg.explicit_scopes, arg.property)

\* C1 witness: two different listed levels have the property and the earlier
\* one is returned.
C1_Witness ==
    /\ op = "resolve_property_with_explicit_scopes"
    /\ LET hits == Hits(StoresOf(config, arg.block, arg.branch, arg.group),
                        arg.explicit_scopes, arg.property)
       IN  /\ \E i \in hits, j \in hits :
                /\ i < j
                /\ arg.explicit_scopes[i] # arg.explicit_scopes[j]
                /\ out = Some([value |-> StoresOf(config, arg.block, arg.branch, arg.group)
                                            [arg.explicit_scopes[i]].v[arg.property],
                               level |-> arg.explicit_scopes[i]])
           /\ 1 \notin hits

\* the chain the configuration prescribes for a property and a block type
PrescribedChain(cfg, property, block_type) ==
    LET rules == cfg.inheritance.rules
    IN  CASE property \notin DOMAIN rules -> cfg.inheritance.general
          [] property \in DOMAIN rules /\ rules[property].kind = "Simple" ->
                rules[property].scopes
          [] property \in DOMAIN rules /\ rules[property].kind = "Complex"
             /\ block_type \in DOMAIN rules[property].overrides ->
                rules[property].overrides[block_type]
          [] property \in DOMAIN rules /\ rules[property].kind = "Complex"
             /\ block_type \notin DOMAIN rules[property].overrides ->
                rules[property].inheritance

\* C2: the chain for (property, block type) is the Simple rule's list, or the
\* Complex rule's override for the block type when there is one and else the
\* rule's base list, or the general list when the property has no rule; the
\* resolver reports this chain and resolves along it.
C2_ChainByTwoLevelLookup ==
    /\ (op = "get_scope_chain_for_property" /\ arg.block_type.some) =>
            out = PrescribedChain(config, arg.property, arg.block_type.v)
    /\ op = "resolve_property_with_scope" =>
            out = FirstMatch(StoresOf(config, arg.block, arg.branch, arg.group),
                             PrescribedChain(config, arg.property, arg.block.type_),
                             arg.property)
    /\ op = "resolve_property" =>
            LET r == FirstMatch(StoresOf(config, arg.block, arg.branch, arg.group),
                                PrescribedChain(config, arg.property, arg.block.type_),
                                arg.property)
            IN  out = IF r.some THEN Some(r.v.value) ELSE None

\* C2 witness: a Complex rule whose override for the block's type decides the
\* outcome: the block has the property, yet the Global value is returned.
C2_Witness ==
    /\ op = "resolve_property_with_scope"
    /\ arg.property \in DOMAIN config.inheritance.rules
    /\ config.inheritance.rules[arg.property].kind = "Complex"
    /\ arg.block.type_ \in DOMAIN config.inheritance.rules[arg.property].overrides
    /\ arg.property \in DOMAIN arg.block.extra
    /\ out = Some([value |-> GlobalValue, level |-> "Global"])

\* C2 second case reached as well: a Complex rule without an override for the
\* block's type, resolved along the rule's base list.
C2_BaseListReached ==
    /\ op = "resolve_property_with_scope"
    /\ arg.property \in DOMAIN config.inheritance.rules
    /\ config.inheritance.rules[arg.property].kind = "Complex"
    /\ arg.block.type_ \notin DOMAIN config.inheritance.rules[arg.property].overrides
    /\ out.some /\ out.v.level = "Group"

-----------------------------------------------------------------------------
(* Properties of the executor (Spec) *)

\* a path was evaluated
Ran == op \in {"execute", "query_network"} /\ arg.path.ok

\* the evaluated path
Ast == arg.path.v

\* what evaluating the inner path of the evaluated path gives and leaves
InnerStep == execute_with_context(TheExecutor, Ast.inner, QueryContext(None, None))

\* does a path contain an Index segment
RECURSIVE HasIndex(_)
HasIndex(path) ==
    CASE path.t = "Node" -> FALSE
      [] path.t = "Index" -> TRUE
      [] OTHER -> HasIndex(path.inner)

\* the branches with this id, by position
BranchesWithId(id) ==
    {i \in 1..Len(network.nodes) :
        network.nodes[i].kind = "Branch" /\ network.nodes[i].base.id = id}

\* the groups a branch names as its parent, by position
GroupsOwning(branch) ==
    {i \in 1..Len(network.nodes) :
        /\ branch.base.parent_id.some
        /\ network.nodes[i].kind = "Group"
        /\ network.nodes[i].base.id = branch.base.parent_id.v}

Least(S) == CHOOSE i \in S : \A j \in S : i <= j

\* the context names a branch of the network and one of its blocks
ContextSelectsBlock(context) ==
    /\ context.node_id.some
    /\ context.block_index.some
    /\ BranchesWithId(context.node_id.v) # {}
    /\ context.block_index.v < Len(network.nodes[Least(BranchesWithId(context.node_id.v))].blocks)

ContextBranch(context) == network.nodes[Least(BranchesWithId(context.node_id.v))]
ContextBlock(context) == ContextBranch(context).blocks[context.block_index.v + 1]
ContextGroup(context) ==
    IF GroupsOwning(ContextBranch(context)) = {} THEN None
    ELSE Some(network.nodes[Least(GroupsOwning(ContextBranch(context)))])

\* a scope resolution of the evaluated path reached the resolver with a block
ScopeResolveReachedBlock ==
    /\ Ran
    /\ Ast.t = "ScopeResolve"
    /\ scope_resolver
    /\ InnerStep.res.ok
    /\ ContextSelectsBlock(InnerStep.context)

\* the answer for a value found or not found in the scopes
Answer(property, found) ==
    IF found.some THEN Ok(toml_to_json(found.v))
    ELSE Err(PropertyNotFound(NotFoundInAnyScope(property)))

\* C3: with the general list Block, Branch, Group, Global and no rule for the
\* property, resolution gives the block's value when the block has the
\* property (whatever Global holds), else the branch's, else the owning
\* group's, else the Global value; a branch without an owning group in the
\* network (no parent_id, or one that names no group) skips the Group level.
C3_DefaultCascade ==
    (/\ ScopeResolveReachedBlock
     /\ Ast.scopes = <<>>
     /\ config.inheritance.general = <<"Block", "Branch", "Group", "Global">>
     /\ Ast.property \notin DOMAIN config.inheritance.rules)
    => LET p == Ast.property
           block == ContextBlock(InnerStep.context)
           branch == ContextBranch(InnerStep.context)
           group == ContextGroup(InnerStep.context)
       IN  out = Answer(p,
                   IF p \in DOMAIN block.extra THEN Some(block.extra[p])
                   ELSE IF p \in DOMAIN branch.base.extra THEN Some(branch.base.extra[p])
                   ELSE IF group.some /\ p \in DOMAIN group.v.base.extra
                        THEN Some(group.v.base.extra[p])
                   ELSE IF p \in DOMAIN config.properties THEN Some(config.properties[p])
                   ELSE None)

\* C3 witness: the branch names a parent that is no node of the network and
\* only Global has the property: the Global value is the answer.
C3_Witness ==
    /\ ScopeResolveReachedBlock
    /\ Ast.scopes = <<>>
    /\ config.inheritance.general = <<"Block", "Branch", "Group", "Global">>
    /\ Ast.property \notin DOMAIN config.inheritance.rules
    /\ ContextBranch(InnerStep.context).base.parent_id.some
    /\ ContextGroup(InnerStep.context) = None
    /\ Ast.property \notin DOMAIN ContextBlock(InnerStep.context).extra
    /\ Ast.property \notin DOMAIN ContextBranch(InnerStep.context).base.extra
    /\ Ast.property \in DOMAIN config.properties
    /\ out = Ok(toml_to_json(config.properties[Ast.property]))

\* the levels a list of scope names spells, when every name is one of
\* block, branch, group, global in any letter case; <<>> otherwise
LevelsSpelled(names) ==
    LET level(name) ==
            CASE to_lowercase(name) = sBlock -> "Block"
              [] to_lowercase(name) = sBranch -> "Branch"
              [] to_lowercase(name) = sGroup -> "Group"
              [] to_lowercase(name) = sGlobal -> "Global"
              [] OTHER -> "none"
    IN  IF \A i \in 1..Len(names) : level(names[i]) # "none"
        THEN [i \in 1..Len(names) |-> level(names[i])]
        ELSE <<>>

\* C4: a ScopeResolve with a non-empty list of recognized scope names is
\* resolved along exactly that list, whatever the configuration prescribes
\* for the property; with the list "global" the Global value is the answer
\* even when the selected block has the property.
C4_ExplicitScopesOverride ==
    (ScopeResolveReachedBlock /\ LevelsSpelled(Ast.scopes) # <<>>)
    => LET context == InnerStep.context
           found == FirstMatch(StoresOf(config, ContextBlock(context), ContextBranch(context),
                                        ContextGroup(context)),
                               LevelsSpelled(Ast.scopes), Ast.property)
       IN  /\ out = Answer(Ast.property, IF found.some THEN Some(found.v.value) ELSE None)
           /\ (Ast.scopes = <<sGlobal>> /\ Ast.property \in DOMAIN config.properties)
                => out = Ok(toml_to_json(config.properties[Ast.property]))

\* C4 witness: the list is "global", the selected block has the property and
\* the configured chain for it starts at Block; the Global value is returned.
C4_Witness ==
    /\ ScopeResolveReachedBlock
    /\ Ast.scopes = <<sGlobal>>
    /\ Ast.property \in DOMAIN ContextBlock(InnerStep.context).extra
    /\ Ast.property \in DOMAIN config.properties
    /\ Head(PrescribedChain(config, Ast.property, ContextBlock(InnerStep.context).type_)) = "Block"
    /\ out = Ok(toml_to_json(GlobalValue))
    /\ out # Ok(toml_to_json(ContextBlock(InnerStep.context).extra[Ast.property]))

\* C6: a ScopeResolve whose inner path has no Index segment, or that runs on
\* an executor without a scope resolver, returns no value; once the inner path
\* is evaluated the failure is InvalidType.  The context holds a block index
\* exactly when the inner path has an Index segment.
C6_ScopeResolveNeedsContext ==
    (Ran /\ Ast.t = "ScopeResolve")
    => /\ (InnerStep.context.block_index.some <=> HasIndex(Ast.inner))
       /\ (~HasIndex(Ast.inner) \/ ~InnerStep.context.node_id.some \/ ~scope_resolver)
            => /\ ~out.ok
               /\ InnerStep.res.ok => out.e.t = "InvalidType"

\* C6 witness: the inner path x/blocks is evaluated, a resolver is set, and
\* the resolution fails with InvalidType for want of a block index.
C6_Witness ==
    /\ Ran
    /\ Ast.t = "ScopeResolve"
    /\ scope_resolver
    /\ Ast.inner = Property(sBlocks, Node(idX))
    /\ InnerStep.res.ok
    /\ ~out.ok /\ out.e.t = "InvalidType"


\* the Property segments of the evaluated path that are its last segment, or
\* its last but one under a final Index: the segment, the context on entry
\* and the outcome of the segment
PropertyCases ==
    (IF Ast.t = "Property" /\ ~(Ast.inner.t = "Node" /\ Ast.inner.id = sNetwork)
     THEN {[node |-> Ast, before |-> QueryContext(None, None), res |-> out]}
     ELSE {})
    \cup
    (IF Ast.t = "Index" /\ Ast.inner.t = "Property"
     THEN {[node |-> Ast.inner,
            before |-> QueryContext(None, Some(Ast.idx)),
            res |-> execute_with_context(TheExecutor, Ast.inner,
                                         QueryContext(None, Some(Ast.idx))).res]}
     ELSE {})

\* what C5 says of one Property segment whose inner path gives an object
\* (the name "data", which get_property answers with the object itself, aside)
PropertyCaseAsClaimed(c) ==
    LET in == execute_with_context(TheExecutor, c.node.inner, c.before)
        value == in.res.v
        name == c.node.name
    IN  (in.res.ok /\ value.k = "Object" /\ name # sData) =>
            IF name \in DOMAIN value.m THEN c.res = Ok(value.m[name])
            ELSE IF /\ IsBlockShaped(value)
                    /\ in.context.node_id.some /\ in.context.block_index.some
                    /\ scope_resolver
            THEN IF ContextSelectsBlock(in.context)
                 THEN LET found == FirstMatch(
                                     StoresOf(config, ContextBlock(in.context),
                                              ContextBranch(in.context), ContextGroup(in.context)),
                                     PrescribedChain(config, name, ContextBlock(in.context).type_),
                                     name)
                      IN  c.res = Answer(name, IF found.some THEN Some(found.v.value) ELSE None)
                 ELSE ~c.res.ok /\ c.res.e.t = "PropertyNotFound"
            ELSE c.res = Err(PropertyNotFound(name))

\* C5: Property(name, inner) on an object without the key name gives the
\* resolver's value for name over the default chain (PropertyNotFound when no
\* scope has it) if the object has a string "type", the context holds a node
\* id and a block index and a resolver is set, and PropertyNotFound(name) in
\* every other case; a key the object has is answered with its stored value.
\* A failed Property segment is the failure of the whole path.
C5_PropertyLookupOrFallback ==
    Ran => \A c \in PropertyCases :
                /\ PropertyCaseAsClaimed(c)
                /\ ~c.res.ok => out = c.res

\* C5, for a Property that is the last segment of the path only
C5_LastSegmentOnly ==
    Ran => \A c \in PropertyCases : c.node = Ast => PropertyCaseAsClaimed(c)


-----------------------------------------------------------------------------
(* Properties of ranges and filters (SpecArray) *)

\* a query text was parsed and, if it parsed, executed
Queried == op = "query_network"

\* the array x/blocks evaluates to
BlocksValue ==
    execute_with_context(TheExecutor, Property(sBlocks, Node(idX)),
                         QueryContext(None, None)).res.v

\* the elements of arr at the zero-based indices first .. last
Slice(arr, first, last) == [i \in 1..(last - first + 1) |-> arr[first + i]]

\* the bounds a range stands for on an array of length n
StartOr0(start) == IF start.some THEN start.v ELSE 0
EndOrLast(end, n) == IF end.some THEN end.v ELSE n - 1

\* C7: for an array of length n and bounds with start_or_0 <= end_or_last < n,
\* Range(start, end, _) returns exactly the elements at the indices
\* start_or_0 .. end_or_last in their order, end_or_last - start_or_0 + 1
\* elements, an omitted start being 0 and an omitted end n - 1.
C7_RangeInclusive ==
    (Queried /\ arg.path.ok /\ arg.path.v.t = "Range") =>
        LET inner == execute_with_context(TheExecutor, arg.path.v.inner,
                                          QueryContext(None, None)).res
            n == Len(inner.v.a)
            first == StartOr0(arg.path.v.start)
            last == EndOrLast(arg.path.v.end, n)
        IN  (inner.ok /\ inner.v.k = "Array" /\ first <= last /\ last < n) =>
                /\ out = Ok(JArray(Slice(inner.v.a, first, last)))
                /\ Len(out.v.a) = last - first + 1

\* C7 witness: x/blocks/1: on three blocks returns the two blocks at 1 and 2.
C7_Witness ==
    /\ Queried
    /\ arg.path = Ok(Range(Some(1), None, Property(sBlocks, Node(idX))))
    /\ Len(BlocksValue.a) = 3
    /\ out = Ok(JArray(<<BlocksValue.a[2], BlocksValue.a[3]>>))
    /\ BlocksValue.a[2] # BlocksValue.a[3]

\* does an element satisfy a filter: its field is there and the comparison
\* gives true
Satisfies(item, field, operator, literal) ==
    LET field_value == get_property(item, field)
    IN  /\ field_value.ok
        /\ matches_filter_value(field_value.v, operator, literal) = Ok(TRUE)

\* the elements of arr that satisfy the filter f, in their order
Satisfying(arr, f) ==
    SelectSeq(arr, LAMBDA item : Satisfies(item, f.field, f.operator, f.value))

\* the text of a fused segment and of the separate form, for a range r and a
\* filter f of a parsed path
FusedText(r, f) ==
    xBlocks \o <<"/">> \o RangeText(r.start, r.end)
        \o FilterText(<<f.field, f.operator, f.value>>)
SeparateText(r, f) ==
    xBlocks \o FilterText(<<f.field, f.operator, f.value>>)
        \o <<"/">> \o RangeText(r.start, r.end)

\* C8: x/blocks/a:b[field op value] parses to Filter over Range over
\* x/blocks, and its result is the slice a..b of the blocks with the elements
\* that do not satisfy the filter left out (at most b-a+1 elements);
\* x/blocks[field op value]/a:b parses to Range over Filter over x/blocks, and
\* its result is the slice a..b of the blocks that satisfy the filter.  An
\* error of the first step is the result.
C8_FusedSliceThenFilter ==
    /\ (Queried /\ arg.text.v \in FusedQueries) =>
          LET f == arg.path.v
              r == f.inner
              slice == get_range(BlocksValue, r.start, r.end)
          IN  /\ arg.path.ok /\ f.t = "Filter" /\ r.t = "Range"
              /\ r.inner = Property(sBlocks, Node(idX))
              /\ arg.text.v = FusedText(r, f)
              /\ IF slice.ok
                 THEN /\ out = Ok(JArray(Satisfying(slice.v.a, f)))
                      /\ Len(out.v.a) <= EndOrLast(r.end, Len(BlocksValue.a))
                                            - StartOr0(r.start) + 1
                 ELSE out = slice
    /\ (Queried /\ arg.text.v \in SeparateQueries) =>
          LET r == arg.path.v
              f == r.inner
          IN  /\ arg.path.ok /\ r.t = "Range" /\ f.t = "Filter"
              /\ f.inner = Property(sBlocks, Node(idX))
              /\ arg.text.v = SeparateText(r, f)
              /\ out = get_range(JArray(Satisfying(BlocksValue.a, f)), r.start, r.end)

\* C8 witness: a fused segment whose slice loses an element to the filter and
\* keeps one, and whose result is not the one of filtering first.
C8_Witness ==
    /\ Queried
    /\ arg.text.v \in FusedQueries
    /\ out.ok
    /\ LET f == arg.path.v
           slice == get_range(BlocksValue, f.inner.start, f.inner.end)
       IN  /\ 0 < Len(out.v.a)
           /\ Len(out.v.a) < Len(slice.v.a)
           /\ out # get_range(JArray(Satisfying(BlocksValue.a, f)),
                              f.inner.start, f.inner.end)


\* the collection a network-level filter text names, and the text for it
CollectionText(collection, f) == collection \o FilterText(<<f.field, f.operator, f.value>>)

\* C9: nodes[field op value] and edges[field op value] parse to Filter over
\* Property(collection, Node("network")), and executing that path succeeds
\* with the elements of the network's collection that satisfy the filter.
C9_NetworkFilterSucceeds ==
    (Queried /\ \E c \in {sNodes, sEdges}, f \in CollectionFilters :
                    arg.text.v = c \o FilterText(f)) =>
        LET f == arg.path.v
            collection == f.inner.name
        IN  /\ arg.path.ok /\ f.t = "Filter"
            /\ f.inner = Property(collection, Node(sNetwork))
            /\ arg.text.v = CollectionText(collection, f)
            /\ out.ok
            /\ out = Ok(JArray(Satisfying(execute_network_query(network, collection).v.a, f)))

OrderingOperators ==
    {"GreaterThan", "LessThan", "GreaterThanOrEqual", "LessThanOrEqual"}

\* C10: a Filter with an ordering operator over an array that has an element
\* with the field fails with InvalidType when the field of such an element is
\* not a number or when the literal does not parse as a float.
C10_OrderingNeedsNumbers ==
    (Queried /\ arg.path.ok /\ arg.path.v.t = "Filter"
        /\ arg.path.v.operator \in OrderingOperators) =>
        LET f == arg.path.v
            inner == execute_with_context(TheExecutor, f.inner, QueryContext(None, None)).res
            selected == {i \in 1..Len(inner.v.a) : get_property(inner.v.a[i], f.field).ok}
        IN  (/\ inner.ok /\ inner.v.k = "Array"
             /\ selected # {}
             /\ \/ \E i \in selected : get_property(inner.v.a[i], f.field).v.k # "Number"
                \/ ~ParseF64(f.value).some)
            => ~out.ok /\ out.e.t = "InvalidType"


-----------------------------------------------------------------------------
(* SpecFilter: filters with plain and dotted fields, over blocks with nested *)
(* properties and over the edges of the network                              *)

\* the most blocks branch x has in SpecFilter
MaxFilterBlocks == 2

\* the most edges the network has in SpecFilter
MaxEdges == 2

nM == <<"m">>
nN == <<"n">>
nArr == <<"a", "r", "r">>
sSource == <<"s", "o", "u", "r", "c", "e">>

\* blocks with a table m, with a table named data, and with a number m and
\* an array of a number and two tables
FilterBlockKinds ==
    {Block(tPipe, None, nM :> TTable(nN :> TInteger(1))),
     Block(tComp, None, nM :> TTable(nN :> TInteger(2))),
     Block(tPipe, None, sData :> TTable(sWeight :> TInteger(1))),
     Block(tComp, None,
           (nM :> TInteger(5))
           @@ (nArr :> TArray(<<TInteger(1), TTable(nN :> TInteger(1)),
                                TTable(nM :> TTable(nN :> TInteger(1)))>>)))}

FilterEdgeKinds == {Edge(idE, idX, idG, 1), Edge(<<"f">>, idG, idX, 2)}

FilterNetworks ==
    {Network(<<BranchNode(NodeBase(idX, sBranchNode, None, None, EmptyMap), <<>>, blocks),
               GroupOf(FALSE)>>,
             edges) :
        blocks \in SeqsUpTo(FilterBlockKinds, MaxFilterBlocks),
        edges \in SeqsUpTo(FilterEdgeKinds, MaxEdges)}

InitFilter ==
    /\ network \in FilterNetworks
    /\ config = ConfigOf(FALSE, default_general_inheritance, EmptyMap)
    /\ scope_resolver = TRUE
    /\ unit_prefs = {}
    /\ Idle

\* a dotted field
Dotted(first, second) == first \o <<".">> \o second

\* the filters of SpecFilter
NestedFilters ==
    {<<field, operator, literal>> :
        field \in {Dotted(nM, nN), Dotted(sData, sWeight), Dotted(sData, sType),
                   sType, nN, nM},
        operator \in {"Equals", "NotEquals", "GreaterThan"},
        literal \in {<<"1">>, tPipe}}

EdgeFilters ==
    {<<field, operator, literal>> :
        field \in {Dotted(sData, sWeight), sWeight, sSource, Dotted(sData, sSource)},
        operator \in {"Equals", "NotEquals", "GreaterThan"},
        literal \in {<<"1">>, <<"2">>, idX}}

\* what the filters are put on: the blocks, the array of a block, one block
\* (an object) and the type of a block (a string)
FilterTargets ==
    {xBlocks,
     xBlocks \o <<"/", "0", "/">> \o nArr,
     xBlocks \o <<"/", "0", "/">>,
     xBlocks \o <<"/", "0", "/">> \o sType \o <<"/">>}

FilterTexts ==
    {target \o FilterText(f) : target \in FilterTargets, f \in NestedFilters}
    \cup {sEdges \o FilterText(f) : f \in EdgeFilters}

\* query_network on the texts of SpecFilter
QueryFiltered ==
    /\ Idle
    /\ \E query_str \in FilterTexts :
          \E query_path \in {parse_query_path(query_str)} :
              /\ op' = "query_network"
              /\ arg' = [text |-> Some(query_str), path |-> query_path]
              /\ out' = IF query_path.ok
                        THEN execute(TheExecutor, query_path.v)
                        ELSE query_path
    /\ UNCHANGED <<network, config, scope_resolver, unit_prefs>>

\* apply_filter on the edges collection of the network
ApplyFilterToEdges ==
    /\ Idle
    /\ \E f \in EdgeFilters :
          \E value \in {execute_network_query(network, sEdges).v} :
              /\ op' = "apply_filter"
              /\ arg' = [value |-> value, field |-> f[1], operator |-> f[2],
                         filter_value |-> f[3]]
              /\ out' = apply_filter(value, f[1], f[2], f[3])
    /\ UNCHANGED <<network, config, scope_resolver, unit_prefs>>

NextFilter ==
    \/ QueryFiltered
    \/ ApplyFilterToEdges
    \/ Return

SpecFilter == InitFilter /\ [][NextFilter]_vars


-----------------------------------------------------------------------------
(* Properties of filters (SpecFilter) *)

\* the lookup of a filter's field in an element, as the filter performs it
FieldOf(item, field) ==
    IF Contains(field, ".") THEN get_nested_property(item, field)
    ELSE get_property(item, field)

\* a Filter was applied: the value it was applied to (when that was
\* evaluated) and its field, operator and literal
FilterCall ==
    IF op = "apply_filter"
    THEN [on |-> Ok(arg.value), field |-> arg.field, operator |-> arg.operator,
          value |-> arg.filter_value]
    ELSE [on |-> execute_with_context(TheExecutor, arg.path.v.inner,
                                      QueryContext(None, None)).res,
          field |-> arg.path.v.field, operator |-> arg.path.v.operator,
          value |-> arg.path.v.value]

\* a Filter reached its value: called directly, or as the last segment of a
\* path whose inner path is evaluated and is not the network sentinel
FilterApplied ==
    \/ op = "apply_filter"
    \/ /\ Queried /\ arg.path.ok /\ arg.path.v.t = "Filter"
       /\ ~(arg.path.v.inner.t = "Property" /\ arg.path.v.inner.inner = Node(sNetwork))
       /\ FilterCall.on.ok

\* C11: a Filter applied to an array returns an array, whatever its elements
\* are: the result holds, in order, the elements whose field lookup succeeds
\* and whose comparison gives true, so an element without the field or an
\* element that is no object is left out.  Applied to a value that is no
\* array, the Filter fails with InvalidType.
C11_FilterNeverFailsOnElement ==
    FilterApplied =>
        LET c == FilterCall
        IN  IF c.on.v.k = "Array"
            THEN /\ out.ok /\ out.v.k = "Array"
                 /\ out.v.a = SelectSeq(c.on.v.a, LAMBDA item :
                                /\ FieldOf(item, c.field).ok
                                /\ matches_filter_value(FieldOf(item, c.field).v,
                                                        c.operator, c.value) = Ok(TRUE))
                 /\ \A i \in 1..Len(out.v.a) : FieldOf(out.v.a[i], c.field).ok
            ELSE ~out.ok /\ out.e.t = "InvalidType"

\* C11 witness: a filter over an array with an element that is no object, an
\* element without the field and an element that is kept.
C11_Witness ==
    /\ FilterApplied
    /\ FilterCall.on.v.k = "Array"
    /\ \E i, j \in 1..Len(FilterCall.on.v.a) :
          /\ FilterCall.on.v.a[i].k # "Object"
          /\ FilterCall.on.v.a[j].k = "Object"
          /\ ~FieldOf(FilterCall.on.v.a[j], FilterCall.field).ok
    /\ out.ok /\ Len(out.v.a) > 0

\* C11 witness: a filter over an object fails with InvalidType.
C11_NonArrayReached ==
    /\ FilterApplied
    /\ FilterCall.on.v.k = "Object"
    /\ ~out.ok /\ out.e.t = "InvalidType"

\* element[k1][k2]...: the keys looked up one after the other, each in the
\* object the one before gave
RECURSIVE KeyPath(_, _)
KeyPath(value, keys) ==
    IF keys = <<>> THEN Some(value)
    ELSE IF value.k = "Object" /\ Head(keys) \in DOMAIN value.m
    THEN KeyPath(value.m[Head(keys)], Tail(keys))
    ELSE None

\* C12: a Filter with a dotted field k1.k2 keeps exactly the elements for
\* which element[k1][k2] exists and compares true against the literal; on the
\* edges, data.weight=w keeps exactly the edges whose data.weight is w.
C12_DottedFieldIsNestedAccess ==
    (FilterApplied /\ Contains(FilterCall.field, ".") /\ FilterCall.on.v.k = "Array") =>
        LET c == FilterCall
            nested(item) == KeyPath(item, Split(c.field, "."))
        IN  out = Ok(JArray(SelectSeq(c.on.v.a, LAMBDA item :
                        /\ nested(item).some
                        /\ matches_filter_value(nested(item).v, c.operator, c.value)
                              = Ok(TRUE))))

\* C12, for dotted fields whose first key is not "data"
C12_ExceptDataKey ==
    (FilterApplied /\ Contains(FilterCall.field, ".") /\ FilterCall.on.v.k = "Array"
        /\ Split(FilterCall.field, ".")[1] # sData) =>
        LET c == FilterCall
            nested(item) == KeyPath(item, Split(c.field, "."))
        IN  out = Ok(JArray(SelectSeq(c.on.v.a, LAMBDA item :
                        /\ nested(item).some
                        /\ matches_filter_value(nested(item).v, c.operator, c.value)
                              = Ok(TRUE))))


-----------------------------------------------------------------------------
(* SpecParse: parse_query_path and parse_filter_expression on texts built    *)
(* from a first segment, later segments and a scope suffix                   *)

\* the most segments a text has after its first
MaxSegments == 2

sFoo == <<"f", "o", "o">>
tEq == <<"t", "=", "C">>

\* first segments: node ids, the empty id, and the collection names alone
\* and as the beginning of an id
FirstSegments ==
    {idX, <<>>, <<"n">>, sNodes, sEdges, sNodes \o <<"[">> \o tEq \o <<"]">>,
     sNodes \o <<"-", "1">>, sEdges \o <<"2">>, sNodes \o <<"]", "x", "[">>}

\* later segments: names, indices, ranges, filters, fused ranges and filters,
\* and their malformed relatives
LaterSegments ==
    {sBlocks, sLabel, <<>>, <<"0">>, <<"+", "5">>, <<"0", "7">>,
     <<"9", "9", "9", "9", "9", "9", "9", "9", "9", "9", "9", "9", "9", "9", "9", "9",
       "9", "9", "9", "9", "9">>,
     <<"1", ":", "2">>, <<":", "1">>, <<"0", ":">>, <<":">>,
     <<"a", ":", "2">>, <<"1", ":", "b">>, <<"1", ":", "2", ":", "3">>,
     <<"0", ":", "1", "[">> \o tEq \o <<"]">>,
     <<"a", ":", "2", "[">> \o tEq \o <<"]">>,
     <<"0", ":", "1", "[", "a", "b", "c">>,
     sBlocks \o <<"[">> \o tEq \o <<"]">>,
     <<"[">> \o tEq \o <<"]">>,
     sBlocks \o <<"[", "t", ":", "y", "=", "1", "]">>,
     sBlocks \o <<"[", "p", ">", "=", "1", "]">>,
     sBlocks \o <<"[", "a", "b", "c", "]">>,
     sBlocks \o <<"[", "a", "b", "c">>,
     <<"p", ">", "=", "1">>,
     <<"a", "]", "b", "[", "c", "=", "1">>}

\* the texts of a first segment followed by up to n later segments
RECURSIVE PathTexts(_)
PathTexts(n) ==
    IF n = 0 THEN FirstSegments
    ELSE LET shorter == PathTexts(n - 1)
         IN  shorter \cup {base \o <<"/">> \o seg : base \in shorter, seg \in LaterSegments}

\* what follows "?scope=" in a text
ScopeLists ==
    {sBlock, sBlock \o <<",">> \o sGlobal, <<" ">> \o sBlock \o <<" ", ",", " ">> \o sGlobal,
     <<>>}

\* the base paths of the texts with a scope suffix
ScopeBases ==
    {<<>>, nP, idX \o <<"/">> \o nP, xBlocks \o <<"/", "0", "/">> \o nP,
     idX \o <<"/", "/">> \o nP, idX \o <<"/">> \o nP \o <<"/">>,
     idX \o <<"/", "a", ":", "2", "/">> \o nP,
     sNodes \o <<"-", "1", "/">> \o sBlocks \o <<"/", "0", "/">> \o nP}

sQuestionScopeEq == <<"?">> \o sScopeEq

ParseTexts ==
    PathTexts(MaxSegments)
    \cup {base \o sQuestionScopeEq \o scopes : base \in ScopeBases, scopes \in ScopeLists}
    \cup {idX \o <<"?">> \o sFoo, idX \o <<"/">> \o nP \o <<"?">> \o sFoo}

\* filter expressions: a field and a value around each operator, with and
\* without blanks
ExpressionFields == {<<"f">>, <<" ", "f", " ">>, <<"a", ".", "b">>}
ExpressionValues == {<<"v">>, <<" ", "1">>, <<"a", " ", "b", " ">>}

FilterExpressions ==
    {field \o OperatorText(operator) \o value :
        field \in ExpressionFields, operator \in FilterOperator, value \in ExpressionValues}
    \cup {<<"a", "b", "c">>, <<>>}

InitParse ==
    /\ network = Network(<<>>, <<>>)
    /\ config = ConfigOf(FALSE, default_general_inheritance, EmptyMap)
    /\ scope_resolver = FALSE
    /\ unit_prefs = {}
    /\ Idle

\* parse_query_path on a text
ParseQueryPath ==
    /\ Idle
    /\ \E path \in ParseTexts :
          /\ op' = "parse_query_path"
          /\ arg' = [text |-> path]
          /\ out' = parse_query_path(path)
    /\ UNCHANGED <<network, config, scope_resolver, unit_prefs>>

\* parse_filter_expression on an expression
ParseFilterExpression ==
    /\ Idle
    /\ \E expr \in FilterExpressions :
          /\ op' = "parse_filter_expression"
          /\ arg' = [text |-> expr]
          /\ out' = parse_filter_expression(expr)
    /\ UNCHANGED <<network, config, scope_resolver, unit_prefs>>

NextParse ==
    \/ ParseQueryPath
    \/ ParseFilterExpression
    \/ Return

SpecParse == InitParse /\ [][NextParse]_vars


-----------------------------------------------------------------------------
(* Properties of the parser                                                  *)

Parsed == op = "parse_query_path"

\* does the text end in a scope list: a '?' followed by "scope="
HasScopeSuffix(text) == FindStr(text, sQuestionScopeEq) # 0

\* does the text begin with the letters of a collection name, which is
\* where parse_query_path leaves for parse_network_query
BeginsWithCollection(text) == starts_with(text, sNodes) \/ starts_with(text, sEdges)

\* the last segment of a text, and the text before the '/' of its last
\* segment
LastSegment(text) == TheOne({parts[Len(parts)] : parts \in {Split(text, "/")}})
BeforeLastSegment(text) ==
    TheOne({Join(SubSeq(parts, 1, Len(parts) - 1), <<"/">>) : parts \in {Split(text, "/")}})

\* the node at the bottom of a path
RECURSIVE Root(_)
Root(path) == IF path.t = "Node" THEN path ELSE Root(path.inner)

\* the paths one and two levels inside a path
Inners(path) ==
    IF path.t = "Node" THEN {}
    ELSE {path.inner} \cup (IF path.inner.t = "Node" THEN {} ELSE {path.inner.inner})

\* C13: a non-empty text without a scope suffix that does not begin with a
\* collection name parses to a chain rooted at Node(first segment): a text
\* without '/' gives exactly Node(text); an empty last segment changes
\* nothing; a non-empty last segment wraps the parse of the non-empty text
\* before it, in one or two levels, and is the outermost node; x/blocks/0
\* gives Index(0, Property("blocks", Node("x"))).
C13_LinearChain ==
    (Parsed /\ arg.text # <<>> /\ ~HasScopeSuffix(arg.text) /\ ~BeginsWithCollection(arg.text))
    => \E parts \in {Split(arg.text, "/")} :
          /\ Len(parts) = 1 => out = Ok(Node(arg.text))
          /\ out.ok => Root(out.v) = Node(parts[1])
          /\ (Len(parts) > 1 /\ BeforeLastSegment(arg.text) # <<>>) =>
                \E before \in {parse_query_path(BeforeLastSegment(arg.text))} :
                    /\ ~before.ok => out = before
                    /\ LastSegment(arg.text) = <<>> => out = before
                    /\ (LastSegment(arg.text) # <<>> /\ out.ok) =>
                          /\ before.ok
                          /\ before.v \in Inners(out.v)
                          /\ before.v # out.v
          /\ arg.text = xBlocks \o <<"/", "0">> =>
                out = Ok(Index(0, Property(sBlocks, Node(idX))))

\* C13 witness: x//blocks was parsed, the empty segment left no trace
C13_Witness ==
    /\ Parsed
    /\ arg.text = idX \o <<"/", "/">> \o sBlocks
    /\ out = Ok(Property(sBlocks, Node(idX)))


\* a state after parsing a text that reaches the segment loop with a
\* non-empty last segment, the text before it being parsed too
SegmentParsed ==
    /\ Parsed
    /\ ~HasScopeSuffix(arg.text)
    /\ ~BeginsWithCollection(arg.text)
    /\ Len(Split(arg.text, "/")) > 1
    /\ LastSegment(arg.text) # <<>>
    /\ BeforeLastSegment(arg.text) # <<>>
    /\ parse_query_path(BeforeLastSegment(arg.text)).ok

\* the shapes of a segment: brackets that open and close, one colon, digits
\* with an optional sign
HasBrackets(seg) == Find(seg, "[") # 0 /\ Find(seg, "]") > Find(seg, "[")
HasOneColon(seg) == Len(Split(seg, ":")) = 2
IsUnsigned(seg) == AllDigits(seg) \/ (Len(seg) > 1 /\ Head(seg) = "+" /\ AllDigits(Tail(seg)))

\* the portion of a segment before its first '[', and from it on
BeforeBracket(seg) == SubSeq(seg, 1, Find(seg, "[") - 1)
FromBracket(seg) == SubSeq(seg, Find(seg, "["), Len(seg))

\* the rule of a segment when the rules are tried in the order (a) to (e),
\* rule (a) taking every segment with a ':' and a '['
StatedRule(seg) ==
    IF Contains(seg, ":") /\ Contains(seg, "[") THEN "a"
    ELSE IF HasBrackets(seg) THEN "b"
    ELSE IF HasOneColon(seg) THEN "c"
    ELSE IF IsUnsigned(seg) THEN "d"
    ELSE "e"

\* does a path have the shape of a rule over the path built so far
HasShape(path, rule, seg, current) ==
    CASE rule = "a" -> /\ path.t = "Filter"
                       /\ path.inner.t = "Range"
                       /\ path.inner.inner = current
      [] rule = "b" -> /\ path.t = "Filter"
                       /\ path.inner = IF BeforeBracket(seg) = <<>> THEN current
                                       ELSE Property(BeforeBracket(seg), current)
      [] rule = "c" -> path.t = "Range" /\ path.inner = current
      [] rule = "d" -> path.t = "Index" /\ path.inner = current
      [] rule = "e" -> path = Property(seg, current)

\* C14 as stated: a later non-empty segment of a text that parses has the
\* shape of the first of the rules (a) to (e) that matches it, (a) being
\* "contains both ':' and '['"; an all-digit segment is an Index.
C14_ClassifiedAsStated ==
    (SegmentParsed /\ out.ok)
    => \E seg \in {LastSegment(arg.text)},
          current \in {parse_query_path(BeforeLastSegment(arg.text)).v} :
          /\ HasShape(out.v, StatedRule(seg), seg, current)
          /\ AllDigits(seg) => out.v.t = "Index"

\* the bound of a range, a segment's text on one side of its colon
BoundOf(text) ==
    IF text = <<>> THEN None
    ELSE IF Head(text) = "+" THEN Some(DigitsValue(Tail(text)))
    ELSE Some(DigitsValue(text))

\* the range of a segment with one colon over the path built so far
RangeOf(seg, current) ==
    TheOne({Range(BoundOf(bounds[1]), BoundOf(bounds[2]), current) :
               bounds \in {Split(seg, ":")}})

\* the filter between the brackets of a segment, over a path
FilterOf(seg, inner) ==
    TheOne({Filter(f.field, f.operator, f.value, inner) :
               f \in {parse_filter_expression(
                          SubSeq(seg, Find(seg, "[") + 1, Find(seg, "]") - 1)).v}})

\* the path of a segment over the path built so far when rule (a) takes only
\* the segments whose portion before the first '[' has one colon, and puts a
\* filter on the range only for brackets that close; and rule (d) the digits
\* that fit a usize
Classified(seg, current) ==
    IF Contains(seg, "[") /\ HasOneColon(BeforeBracket(seg))
    THEN (IF HasBrackets(seg) THEN FilterOf(seg, RangeOf(BeforeBracket(seg), current))
          ELSE RangeOf(BeforeBracket(seg), current))
    ELSE IF HasBrackets(seg)
    THEN FilterOf(seg, IF BeforeBracket(seg) = <<>> THEN current
                       ELSE Property(BeforeBracket(seg), current))
    ELSE IF HasOneColon(seg) THEN RangeOf(seg, current)
    ELSE IF IsUnsigned(seg) /\ FitsUsize(IF Head(seg) = "+" THEN Tail(seg) ELSE seg)
    THEN Index(BoundOf(seg).v, current)
    ELSE Property(seg, current)

\* C14: a later non-empty segment of a text that parses is classified by the
\* first matching rule of: (a) a '[' whose portion before it has exactly one
\* ':' gives a Range, with a Filter on top when the bracket closes; (b)
\* name[field op value] gives a Filter, over Property(name, current) for a
\* non-empty name and over current for an empty one; (c) exactly one ':' gives
\* a Range; (d) digits with an optional '+' that fit a usize give an Index;
\* (e) anything else gives Property. A segment with closed brackets is never a
\* plain Property.
C14_SegmentClassification ==
    (SegmentParsed /\ out.ok)
    => \E seg \in {LastSegment(arg.text)},
          current \in {parse_query_path(BeforeLastSegment(arg.text)).v} :
          /\ out.v = Classified(seg, current)
          /\ HasBrackets(seg) => out.v.t = "Filter"

\* C14 witness: x/blocks[t:y=1], with both ':' and '[', was parsed to a
\* filter over the property blocks, without a range
C14_Witness ==
    /\ Parsed
    /\ arg.text = idX \o <<"/">> \o sBlocks \o <<"[", "t", ":", "y", "=", "1", "]">>
    /\ out = Ok(Filter(<<"t", ":", "y">>, "Equals", <<"1">>, Property(sBlocks, Node(idX))))


ExpressionParsed == op = "parse_filter_expression"

\* C15: for a field and a value without operator characters around any of
\* the six operators, parse_filter_expression returns the field, that
\* operator and the value, both without their surrounding blanks: f>=v is
\* GreaterThanOrEqual with value v, and likewise <= and !=. The same holds of
\* the filter of a segment.
C15_OperatorOrder ==
    /\ ExpressionParsed =>
          \A field \in ExpressionFields, operator \in FilterOperator, value \in ExpressionValues :
              arg.text = field \o OperatorText(operator) \o value
              => out = Ok([field |-> Trim(field), operator |-> operator, value |-> Trim(value)])
    /\ (Parsed /\ arg.text = xBlocks \o <<"[", "p", ">", "=", "1", "]">>) =>
          out = Ok(Filter(<<"p">>, "GreaterThanOrEqual", <<"1">>, Property(sBlocks, Node(idX))))

\* C15 witness: f>=v was parsed to the field f, GreaterThanOrEqual and the
\* value v
C15_Witness ==
    /\ ExpressionParsed
    /\ arg.text = <<"f", ">", "=", "v">>
    /\ out = Ok([field |-> <<"f">>, operator |-> "GreaterThanOrEqual", value |-> <<"v">>])


\* the names of a scope list: its comma-separated tokens without their
\* surrounding blanks, in their order
ScopeTokens(list) ==
    TheOne({[i \in 1..Len(names) |-> Trim(names[i])] : names \in {Split(list, ",")}})

\* is the outcome of parsing base?scope=list the ScopeResolve of the last
\* segment of base, the names of the list and the parse of base without its
\* last segment, and no path when base without its last segment has no parse
ScopeResolveOfBase(outcome, base, list) ==
    \E inner \in {parse_query_path(BeforeLastSegment(base))} :
        IF inner.ok
        THEN outcome = Ok(ScopeResolve(LastSegment(base), ScopeTokens(list), inner.v))
        ELSE ~outcome.ok

\* C16 as stated: parsing base?scope=s1,...,sn gives ScopeResolve(property,
\* [s1..sn], inner) with property the last segment of base and inner the parse
\* of base with its last segment removed.
C16_ScopeResolveAsStated ==
    Parsed =>
        \A base \in ScopeBases, list \in ScopeLists :
            arg.text = base \o sQuestionScopeEq \o list
            => ScopeResolveOfBase(out, base, list)

\* The statement of C16 holds of every base with more than one segment;
\* x/blocks/0/p?scope=block,global gives the property p, the scopes block and
\* global, and the inner path Index(0, Property("blocks", Node("x"))).
C16_ExceptOneSegment ==
    Parsed =>
        /\ \A base \in ScopeBases, list \in ScopeLists :
              (arg.text = base \o sQuestionScopeEq \o list /\ Len(Split(base, "/")) > 1)
              => ScopeResolveOfBase(out, base, list)
        /\ arg.text = xBlocks \o <<"/", "0", "/">> \o nP \o sQuestionScopeEq
                          \o sBlock \o <<",">> \o sGlobal
           => out = Ok(ScopeResolve(nP, <<sBlock, sGlobal>>,
                                    Index(0, Property(sBlocks, Node(idX)))))

\* p?scope=block was parsed, and the property p is still the inner path
C16_OneSegmentReached ==
    /\ Parsed
    /\ arg.text = nP \o sQuestionScopeEq \o sBlock
    /\ out = Ok(ScopeResolve(nP, <<sBlock>>, Node(nP)))


\* is a segment a collection name, alone or followed by a bracketed filter
IsCollectionSegment(seg) ==
    \E collection \in {sNodes, sEdges} :
        seg = collection \/ (starts_with(seg, collection \o <<"[">>) /\ HasBrackets(seg))

\* C17: a text without a scope suffix is parsed as a network-level query,
\* rooted at Node("network"), exactly when its first segment is nodes or edges,
\* alone or followed by a bracketed filter; every other text, nodes-1/label
\* and edges2 among them, is parsed by the segment loop from Node(first
\* segment).
C17_NetworkQueryByFirstSegment ==
    (Parsed /\ arg.text # <<>> /\ ~HasScopeSuffix(arg.text))
    => \E parts \in {Split(arg.text, "/")} :
          IF IsCollectionSegment(parts[1])
          THEN out.ok => Root(out.v) = Node(sNetwork)
          ELSE out = Segments(Tail(parts), Node(parts[1]))

\* nodes-1/label was parsed, and taken for a malformed network-level query
C17_PrefixReached ==
    /\ Parsed
    /\ arg.text = sNodes \o <<"-", "1", "/">> \o sLabel
    /\ out = Err(InvalidCharacter("?", 0))

\* C18: parsing a scope list with an empty base, ?scope=block, fails with
\* UnexpectedEnd.
C18_EmptyBaseUnexpectedEnd ==
    Parsed =>
        \A list \in ScopeLists :
            arg.text = sQuestionScopeEq \o list => out = Err(UnexpectedEnd)

\* ?scope=block was parsed, and failed with EmptyPath
C18_EmptyPathReached ==
    /\ Parsed
    /\ arg.text = sQuestionScopeEq \o sBlock
    /\ out = Err(EmptyPath)


\* the portion of a segment that is read as a range: the segment, or what
\* stands before its first '['
RangePortion(seg) == IF Contains(seg, "[") THEN BeforeBracket(seg) ELSE seg

\* is a text a bound that is no number of a usize
IsBadBound(text) ==
    /\ text # <<>>
    /\ ~(IsUnsigned(text) /\ FitsUsize(IF Head(text) = "+" THEN Tail(text) ELSE text))

\* is a segment a range, alone or before a filter, with a bound that is no
\* number
HasBadBound(seg) ==
    /\ HasOneColon(RangePortion(seg))
    /\ \E bounds \in {Split(RangePortion(seg), ":")} :
          IsBadBound(bounds[1]) \/ IsBadBound(bounds[2])

\* C19: parsing the empty text fails with EmptyPath; parsing a text whose
\* last segment is a range with a bound that is no number, after a text that
\* parses, fails with InvalidIndex, also under a scope suffix; no path is
\* returned.
C19_EmptyPathAndInvalidIndex ==
    /\ (Parsed /\ arg.text = <<>>) => out = Err(EmptyPath)
    /\ (SegmentParsed /\ HasBadBound(LastSegment(arg.text)))
       => ~out.ok /\ out.e.t = "InvalidIndex"
    /\ Parsed =>
          \A list \in ScopeLists :
              arg.text = idX \o <<"/", "a", ":", "2", "/">> \o nP \o sQuestionScopeEq \o list
              => ~out.ok /\ out.e.t = "InvalidIndex"

\* C19 witness: x/blocks/a:2 was parsed and failed on the start of its range
C19_Witness ==
    /\ Parsed
    /\ arg.text = xBlocks \o <<"/", "a", ":", "2">>
    /\ out = Err(InvalidIndex("Invalid range start"))

\* the empty text was parsed and failed with EmptyPath
C19_EmptyTextReached ==
    /\ Parsed
    /\ arg.text = <<>>
    /\ out = Err(EmptyPath)


-----------------------------------------------------------------------------
(* SpecLookup: execute on paths rooted at a node id, over networks whose     *)
(* nodes may share an id                                                     *)

\* the most nodes a network has
MaxNodes == 3

idM == <<"m">>

\* the nodes the networks are built from: three with the id x that differ in
\* kind, label and blocks, the group g, and a group with the id network
LookupNodeKinds ==
    {BranchNode(NodeBase(idX, sBranchNode, Some(<<"a">>), None, EmptyMap),
                <<>>, <<Block(tPipe, None, EmptyMap)>>),
     GroupNode(NodeBase(idX, sLabeledGroup, Some(<<"b">>), None, EmptyMap)),
     BranchNode(NodeBase(idX, sBranchNode, None, None, EmptyMap), <<>>, <<>>),
     GroupOf(FALSE),
     GroupNode(NodeBase(sNetwork, sLabeledGroup, Some(<<"c">>), None, EmptyMap))}

InitLookup ==
    /\ network \in {Network(nodes, edges) :
                       nodes \in SeqsUpTo(LookupNodeKinds, MaxNodes),
                       edges \in {<<>>, <<Edge(idE, idX, idG, 1), Edge(idG, idG, idX, 2)>>}}
    /\ config = ConfigOf(TRUE, default_general_inheritance, EmptyMap)
    /\ scope_resolver = TRUE
    /\ unit_prefs = {}
    /\ Idle

\* the paths over a root: the node, three of its properties, an index, a range
\* and a filter over its blocks, and a scope resolution
PathsOver(root) ==
    {root,
     Property(sLabel, root),
     Property(sNodes, root),
     Property(sEdges, root),
     Index(0, Property(sBlocks, root)),
     Range(None, None, Property(sBlocks, root)),
     Filter(sType, "Equals", tPipe, Property(sBlocks, root)),
     ScopeResolve(nP, <<sGlobal>>, root)}

RootedQueries == UNION {PathsOver(Node(id)) : id \in {idX, idG, idM, sNetwork}}

\* QueryExecutor::execute on a path rooted at a node id
ExecuteRooted ==
    /\ Idle
    /\ \E path \in RootedQueries :
          /\ op' = "execute"
          /\ arg' = [text |-> None, path |-> Ok(path)]
          /\ out' = execute(TheExecutor, path)
    /\ UNCHANGED <<network, config, scope_resolver, unit_prefs>>

NextLookup ==
    \/ ExecuteRooted
    \/ Return

SpecLookup == InitLookup /\ [][NextLookup]_vars

-----------------------------------------------------------------------------
(* Properties of the lookup of a node                                        *)

Executed == op = "execute"

\* does the network have a node with this id
HasNode(id) == \E i \in 1..Len(network.nodes) : network.nodes[i].base.id = id

\* is a position the first one of a node with this id
IsFirstWithId(i, id) ==
    /\ network.nodes[i].base.id = id
    /\ \A j \in 1..(i - 1) : network.nodes[j].base.id # id

\* is a path the network-level query: a Property directly over
\* Node("network") at the top of the path
IsNetworkLevel(path) == path.t = "Property" /\ path.inner = Node(sNetwork)

\* C20 as stated: Node(id) evaluates to the first node with that id, and when
\* no node has the id, executing any path rooted at Node(id) fails with
\* NodeNotFound(id).
C20_LookupAsStated ==
    Executed =>
        \E path \in {arg.path.v} : \E id \in {Root(path).id} :
            /\ (path = Node(id) /\ HasNode(id)) =>
                  \E i \in 1..Len(network.nodes) :
                      IsFirstWithId(i, id) /\ out = Ok(NodeObject(unit_prefs, network.nodes[i]))
            /\ ~HasNode(id) => out = Err(NodeNotFound(id))

\* C20: Node(id) evaluates to the first node with that id, and so does the
\* label read over it; when no node has the id, executing a path rooted at
\* Node(id) fails with NodeNotFound(id), unless the path is a Property
\* directly over Node("network"), the network-level query, which looks no
\* node up.
C20_FirstMatchOrNodeNotFound ==
    Executed =>
        \E path \in {arg.path.v} : \E id \in {Root(path).id} :
            /\ (path = Node(id) /\ HasNode(id)) =>
                  \E i \in 1..Len(network.nodes) :
                      IsFirstWithId(i, id) /\ out = Ok(NodeObject(unit_prefs, network.nodes[i]))
            /\ (path = Property(sLabel, Node(id)) /\ HasNode(id) /\ ~IsNetworkLevel(path)) =>
                  \E i \in 1..Len(network.nodes) :
                      /\ IsFirstWithId(i, id)
                      /\ out = get_property(NodeObject(unit_prefs, network.nodes[i]), sLabel)
            /\ (~HasNode(id) /\ ~IsNetworkLevel(path)) => out = Err(NodeNotFound(id))
            /\ IsNetworkLevel(path) => out = execute_network_query(network, path.name)

\* C20 witness: Node(x) was executed on a network with two different nodes of
\* the id x, and the first one came back
C20_Witness ==
    /\ Executed
    /\ arg.path.v = Node(idX)
    /\ Len(network.nodes) > 1
    /\ network.nodes[1].base.id = idX
    /\ network.nodes[2].base.id = idX
    /\ network.nodes[1] # network.nodes[2]
    /\ out = Ok(NodeObject(unit_prefs, network.nodes[1]))
    /\ out # Ok(NodeObject(unit_prefs, network.nodes[2]))

\* a path over the missing id m was executed and failed with NodeNotFound(m)
C20_MissingReached ==
    /\ Executed
    /\ arg.path.v = Index(0, Property(sBlocks, Node(idM)))
    /\ out = Err(NodeNotFound(idM))


-----------------------------------------------------------------------------
(* Properties of the walk (SpecArray, Spec)                                  *)

\* C21: Index(i, inner) over an inner path that evaluates to an array of
\* length n gives the element at position i when i < n and fails with
\* IndexOutOfRange(i, n) when i >= n (index 99 on two blocks fails with
\* IndexOutOfRange(99, 2)); over an inner path that evaluates to another value
\* it fails with InvalidType.
C21_IndexInBounds ==
    (Queried /\ Ran /\ Ast.t = "Index" /\ InnerStep.res.ok) =>
        \E value \in {InnerStep.res.v} :
            /\ value.k = "Array" =>
                  IF Ast.idx < Len(value.a) THEN out = Ok(value.a[Ast.idx + 1])
                  ELSE out = Err(IndexOutOfRange(Ast.idx, Len(value.a)))
            /\ value.k # "Array" => ~out.ok /\ out.e.t = "InvalidType"
            /\ (arg.text.v = xBlocks \o <<"/", "9", "9">> /\ Len(network.nodes[1].blocks) = 2)
                  => out = Err(IndexOutOfRange(99, 2))

\* C21 witness: x/blocks/2 on two blocks failed with IndexOutOfRange(2, 2)
C21_Witness ==
    /\ Queried
    /\ arg.text.v = xBlocks \o <<"/", "2">>
    /\ Len(network.nodes[1].blocks) = 2
    /\ out = Err(IndexOutOfRange(2, 2))

\* x/blocks/1 on two different blocks gave the second one
C21_ElementReached ==
    /\ Queried
    /\ arg.text.v = xBlocks \o <<"/", "1">>
    /\ Len(network.nodes[1].blocks) = 2
    /\ BlocksValue.a[1] # BlocksValue.a[2]
    /\ out = Ok(BlocksValue.a[2])

\* x/id/0, an index on a string, failed with InvalidType
C21_NonArrayReached ==
    /\ Queried
    /\ arg.text.v = idX \o <<"/">> \o sId \o <<"/", "0">>
    /\ ~out.ok /\ out.e.t = "InvalidType"


\* the evaluated path has an inner path that is walked: it is no Node and no
\* network-level query
HasWalkedInner == Ran /\ Ast.t # "Node" /\ ~IsNetworkLevel(Ast)

\* C22: when the inner path of the evaluated path fails with an error, the
\* evaluated path fails with the same error and gives no value, whatever its
\* kind is: Property, Index, Range, Filter or ScopeResolve.
C22_InnerFailureIsTheFailure ==
    (HasWalkedInner /\ ~InnerStep.res.ok) => out = InnerStep.res

\* The statement of C22 holds of every path that is no Index.
C22_ExceptIndex ==
    (HasWalkedInner /\ Ast.t # "Index" /\ ~InnerStep.res.ok) => out = InnerStep.res

\* a ScopeResolve for p, which Global has, failed with the IndexOutOfRange of
\* its inner path
C22_ScopeResolveReached ==
    /\ Ran
    /\ Ast = ScopeResolve(nP, <<sGlobal>>, Index(2, Property(sBlocks, Node(idX))))
    /\ scope_resolver
    /\ nP \in DOMAIN config.properties
    /\ out = Err(IndexOutOfRange(2, 2))

\* x/p/0 was evaluated on a branch without p: x/p fails with
\* PropertyNotFound(p), x/p/0 with another error
C22_IndexReached ==
    /\ Ran
    /\ Ast = Index(0, Property(nP, Node(idX)))
    /\ InnerStep.res = Err(PropertyNotFound(nP))
    /\ ~out.ok /\ out.e.t = "InvalidType"


-----------------------------------------------------------------------------
(* SpecRepeat: one executor called several times in a row, each call         *)
(* remembering the outcomes of the calls before it                           *)

\* the most calls in a row
MaxCalls == 3

\* branch x with two blocks; the first block and the branch have p or not
InitRepeat ==
    /\ network \in {n \in ScopeNetworks :
                       /\ Len(n.nodes) = 1
                       /\ ~n.nodes[1].base.parent_id.some
                       /\ n.nodes[1].blocks[1].type_ = tPipe}
    /\ config = ConfigOf(TRUE, default_general_inheritance, EmptyMap)
    /\ scope_resolver = TRUE
    /\ unit_prefs = {}
    /\ Idle

\* paths that leave a node id or a block index in their context, and paths
\* whose outcome would change with a context that is not empty
RepeatQueries ==
    {Node(idG),
     Index(0, Property(sBlocks, Node(idX))),
     Property(nP, Index(1, Property(sBlocks, Node(idX)))),
     Property(nP, Node(idX)),
     ScopeResolve(nP, <<sBlock, sGlobal>>, Node(idX)),
     Property(sNodes, Node(sNetwork))}

\* the calls that came before the next one, as path and outcome
CallsSoFar ==
    IF op = "idle" THEN {} ELSE arg.earlier \cup {[path |-> arg.path.v, out |-> out]}

\* QueryExecutor::execute called again on the same executor: arg keeps, next
\* to the path, the context the walk ended with (a local of execute that is
\* dropped on return), the outcomes of the earlier calls and their number
ExecuteInTurn ==
    /\ IF op = "idle" THEN TRUE ELSE arg.calls < MaxCalls
    /\ \E path \in RepeatQueries :
          /\ op' = "execute"
          /\ arg' = [text |-> None,
                     path |-> Ok(path),
                     context |-> execute_with_context(TheExecutor, path,
                                                      QueryContext(None, None)).context,
                     earlier |-> CallsSoFar,
                     calls |-> IF op = "idle" THEN 1 ELSE arg.calls + 1]
          /\ out' = execute(TheExecutor, path)
    /\ UNCHANGED <<network, config, scope_resolver, unit_prefs>>

NextRepeat ==
    \/ ExecuteInTurn
    \/ Return

SpecRepeat == InitRepeat /\ [][NextRepeat]_vars

C23_NothingModified ==
    [][/\ network' = network
       /\ config' = config
       /\ scope_resolver' = scope_resolver
       /\ unit_prefs' = unit_prefs]_vars

-----------------------------------------------------------------------------
(* Properties of the network-level queries (SpecLookup)                      *)

\* the values a node serializes to, field by field
SerializedValues(node) ==
    TheOne({{map[key] : key \in DOMAIN map} : map \in {SerializeNode(node)}})

\* C24: executing the parse of nodes gives an array with one element per node
\* of the network, the i-th taken from the i-th node; executing the parse of
\* edges gives an array with one element per edge, the i-th being the i-th
\* edge, and the empty array for a network without edges; another name under
\* Node("network") fails with InvalidType.
C24_NetworkCollections ==
    (Executed /\ IsNetworkLevel(Ast)) =>
        /\ Ast.name = sNodes =>
              /\ parse_query_path(sNodes) = Ok(Ast)
              /\ out.ok /\ out.v.k = "Array"
              /\ Len(out.v.a) = Len(network.nodes)
              /\ \A i \in 1..Len(network.nodes) :
                    out.v.a[i] \in SerializedValues(network.nodes[i])
        /\ Ast.name = sEdges =>
              /\ parse_query_path(sEdges) = Ok(Ast)
              /\ out.ok /\ out.v.k = "Array"
              /\ Len(out.v.a) = Len(network.edges)
              /\ \A i \in 1..Len(network.edges) :
                    /\ out.v.a[i].k = "Object"
                    /\ out.v.a[i].m[sId] = JString(network.edges[i].id)
                    /\ out.v.a[i].m[sSource] = JString(network.edges[i].source)
                    /\ out.v.a[i].m[sTarget] = JString(network.edges[i].target)
              /\ network.edges = <<>> => out = Ok(JArray(<<>>))
        /\ Ast.name \notin {sNodes, sEdges} => ~out.ok /\ out.e.t = "InvalidType"

\* C24 witness: nodes was executed on a network of three nodes, two of them
\* different branches, and gave three elements, different for the branches
C24_Witness ==
    /\ Executed
    /\ Ast = Property(sNodes, Node(sNetwork))
    /\ Len(network.nodes) = 3
    /\ network.nodes[1].kind = "Branch" /\ network.nodes[3].kind = "Branch"
    /\ network.nodes[1] # network.nodes[3]
    /\ out.ok /\ Len(out.v.a) = 3
    /\ out.v.a[1] # out.v.a[3]

\* edges was executed on a network of two edges and on one without edges
C24_EdgesReached ==
    /\ Executed
    /\ Ast = Property(sEdges, Node(sNetwork))
    /\ Len(network.edges) = 2
    /\ out.ok /\ Len(out.v.a) = 2

\* another name under Node("network") was executed and failed with
\* InvalidType
C24_OtherNameReached ==
    /\ Executed
    /\ Ast = Property(sLabel, Node(sNetwork))
    /\ ~out.ok /\ out.e.t = "InvalidType"


-----------------------------------------------------------------------------
(* Properties of the blocks of a branch (SpecArray)                          *)

\* the blocks of branch x
BlocksOfX == network.nodes[1].blocks

\* the quantity of a block: the stated one, or 1
QuantityOf(block) == IF block.quantity.some THEN block.quantity.v ELSE 1

\* C25: the blocks array of the structured value of a branch has one entry per
\* block, in block order, and every entry carries type and quantity, the
\* quantity being the stated one or 1; x/blocks/i/quantity succeeds with that
\* quantity for every valid i.
C25_BlocksCarryTypeAndQuantity ==
    (Queried /\ Ran) =>
        /\ BlocksValue.k = "Array"
        /\ Len(BlocksValue.a) = Len(BlocksOfX)
        /\ \A i \in 1..Len(BlocksOfX) :
              /\ sType \in DOMAIN BlocksValue.a[i].m
              /\ BlocksValue.a[i].m[sType] = JString(BlocksOfX[i].type_)
              /\ sQuantity \in DOMAIN BlocksValue.a[i].m
              /\ BlocksValue.a[i].m[sQuantity] = JNumber(QuantityOf(BlocksOfX[i]), FALSE)
        /\ \A i \in 0..(Len(BlocksOfX) - 1) :
              arg.text.v = xBlocks \o <<"/">> \o NatToString(i) \o <<"/">> \o sQuantity
                  => out = Ok(JNumber(QuantityOf(BlocksOfX[i + 1]), FALSE))

\* every entry carries type, and quantity when the block states one;
\* x/blocks/i/type succeeds for every valid i, x/blocks/i/quantity succeeds
\* when block i states its quantity
C25_TypeAndStatedQuantity ==
    (Queried /\ Ran) =>
        /\ BlocksValue.k = "Array"
        /\ Len(BlocksValue.a) = Len(BlocksOfX)
        /\ \A i \in 1..Len(BlocksOfX) :
              /\ sType \in DOMAIN BlocksValue.a[i].m
              /\ BlocksValue.a[i].m[sType] = JString(BlocksOfX[i].type_)
              /\ sQuantity \in DOMAIN BlocksValue.a[i].m <=> BlocksOfX[i].quantity.some
              /\ BlocksOfX[i].quantity.some =>
                    BlocksValue.a[i].m[sQuantity] = JNumber(BlocksOfX[i].quantity.v, FALSE)
        /\ \A i \in 0..(Len(BlocksOfX) - 1) :
              /\ arg.text.v = xBlocks \o <<"/">> \o NatToString(i) \o <<"/">> \o sType
                    => out = Ok(JString(BlocksOfX[i + 1].type_))
              /\ (/\ arg.text.v = xBlocks \o <<"/">> \o NatToString(i) \o <<"/">> \o sQuantity
                  /\ BlocksOfX[i + 1].quantity.some)
                    => out = Ok(JNumber(BlocksOfX[i + 1].quantity.v, FALSE))

\* x/blocks/0/quantity was asked of a block that states no quantity and failed
\* with PropertyNotFound
C25_OmittedQuantityReached ==
    /\ Queried
    /\ arg.text.v = xBlocks \o <<"/", "0", "/">> \o sQuantity
    /\ Len(BlocksOfX) >= 1 /\ ~BlocksOfX[1].quantity.some
    /\ ~out.ok /\ out.e.t = "PropertyNotFound"

\* x/blocks/1/quantity was asked of a block that states quantity 2 and gave 2
C25_StatedQuantityReached ==
    /\ Queried
    /\ arg.text.v = xBlocks \o <<"/", "1", "/">> \o sQuantity
    /\ Len(BlocksOfX) >= 2 /\ BlocksOfX[2].quantity = Some(2)
    /\ out = Ok(JNumber(2, FALSE))


-----------------------------------------------------------------------------
(* Properties of the parser's totality (SpecParse)                           *)

\* the kinds of ParseError
ParseErrorKinds == {"EmptyPath", "InvalidIndex", "UnexpectedEnd", "InvalidCharacter"}

\* s has a ']' before its first '['
ClosesBeforeOpening(s) ==
    Find(s, "[") # 0 /\ Find(s, "]") # 0 /\ Find(s, "]") < Find(s, "[")

\* some segment of the text has a ']' before its first '['
SomeSegmentClosesBeforeOpening(text) ==
    TheOne({\E i \in 1..Len(parts) : ClosesBeforeOpening(parts[i]) :
               parts \in {Split(text, "/")}})

\* C26: parse_query_path returns Ok(AST) or Err(ParseError) for every text and
\* never aborts, segments with ']' before '[', unbalanced brackets and
\* segments of several colons included.
C26_ParseIsTotal ==
    Parsed => (out.ok \/ out.e.t \in ParseErrorKinds)

\* for a text none of whose segments has a ']' before its first '[',
\* parse_query_path returns Ok(AST) or Err(ParseError)
C26_TotalOnOrderedBrackets ==
    (Parsed /\ ~SomeSegmentClosesBeforeOpening(arg.text)) =>
        (out.ok \/ out.e.t \in ParseErrorKinds)

\* n/a]b[c=1 was parsed and the slice of parse_filter aborted
C26_FilterAbortReached ==
    /\ Parsed
    /\ arg.text = <<"n", "/", "a", "]", "b", "[", "c", "=", "1">>
    /\ out = Panic

\* nodes]x[ was parsed and the slice of parse_network_query aborted
C26_NetworkAbortReached ==
    /\ Parsed
    /\ arg.text = sNodes \o <<"]", "x", "[">>
    /\ out = Panic

\* an unbalanced bracket and a segment of several colons were parsed without
\* an abort
C26_UnbalancedReached ==
    /\ Parsed
    /\ arg.text = idX \o <<"/">> \o sBlocks \o <<"[", "a", "b", "c", "/", "1", ":", "2", ":", "3">>
    /\ out # Panic


-----------------------------------------------------------------------------
(* Properties of the block handed to the resolver (SpecArray)                *)

\* the property a Property or ScopeResolve path asks for
AskedProperty == IF Ast.t = "ScopeResolve" THEN Ast.property ELSE Ast.name

\* the blocks of branch x whose structured value is the value the indexed
\* inner path evaluated to
SelectedBlocks ==
    {b \in {BlocksOfX[i] : i \in 1..Len(BlocksOfX)} :
        BlockObject(unit_prefs, b) = InnerStep.res.v}

\* the evaluated path hands a block to the resolver: a ScopeResolve, or a
\* Property the selected block's value lacks, over an Index that selected a
\* block of branch x
DelegatesSelectedBlock ==
    /\ Queried /\ Ran
    /\ scope_resolver
    /\ Ast.t \in {"Property", "ScopeResolve"}
    /\ Ast.inner.t = "Index"
    /\ InnerStep.res.ok
    /\ SelectedBlocks # {}
    /\ Ast.t = "Property" => Ast.name \notin DOMAIN InnerStep.res.v.m

\* the answer of the resolver for a block of branch x: along the explicit
\* levels when the path spells some, along the configured chain otherwise
AnswerFor(block) ==
    LET levels == IF Ast.t = "ScopeResolve" /\ LevelsSpelled(Ast.scopes) # <<>>
                  THEN LevelsSpelled(Ast.scopes)
                  ELSE PrescribedChain(config, AskedProperty, block.type_)
        found == FirstMatch(StoresOf(config, block, network.nodes[1], None),
                            levels, AskedProperty)
    IN  Answer(AskedProperty, IF found.some THEN Some(found.v.value) ELSE None)

\* C27: when the executor hands a block to the resolver, it is the block the
\* path selected, the one whose structured value the indexed inner path
\* evaluated to: after x/blocks[filter]/i or x/blocks/a:b/i the property is
\* resolved against the i-th element of the filtered or sliced array.
C27_SelectedBlockConsulted ==
    DelegatesSelectedBlock => \E block \in SelectedBlocks : out = AnswerFor(block)

\* when the index is taken directly on x/blocks, the block handed to the
\* resolver is the selected one
C27_DirectIndexConsulted ==
    (DelegatesSelectedBlock /\ Ast.inner.inner = Property(sBlocks, Node(idX)))
        => \E block \in SelectedBlocks : out = AnswerFor(block)

\* x/blocks[quantity>=2]/0/p selected a block without p behind a first block
\* with p = 1, and the answer was p of the first block instead of the Global
\* value
C27_FilteredReached ==
    /\ DelegatesSelectedBlock
    /\ Ast.t = "Property"
    /\ Ast.inner.inner.t = "Filter"
    /\ BlocksOfX[1] = Block(tPipe, None, nP :> TInteger(1))
    /\ SelectedBlocks = {Block(tPipe, Some(2), EmptyMap)}
    /\ out = Ok(JNumber(1, FALSE))

\* x/blocks/1:/0/p?scope=block,global selected the second block, and the
\* answer was p of the first block
C27_SlicedReached ==
    /\ DelegatesSelectedBlock
    /\ Ast.t = "ScopeResolve"
    /\ Ast.inner.inner.t = "Range"
    /\ Len(BlocksOfX) = 2
    /\ BlocksOfX[1] = Block(tPipe, None, nP :> TInteger(1))
    /\ SelectedBlocks = {Block(tComp, None, nP :> TInteger(3))}
    /\ out = Ok(JNumber(1, FALSE))

\* x/blocks/1/quantity handed the second block, which states no quantity, to
\* the resolver
C27_DirectReached ==
    /\ DelegatesSelectedBlock
    /\ Ast = Property(sQuantity, Index(1, Property(sBlocks, Node(idX))))
    /\ Len(BlocksOfX) = 2 /\ BlocksOfX[1] # BlocksOfX[2]
    /\ ~out.ok


-----------------------------------------------------------------------------
(* Properties of the block index and the order of the segments (Spec)        *)

\* the evaluated path is an Index over a Property of a node the network has,
\* and get_property does not find the property on the node's structured value
IndexOverMissingProperty ==
    /\ Ran
    /\ Ast.t = "Index"
    /\ Ast.inner.t = "Property"
    /\ Ast.inner.inner.t = "Node"
    /\ \E node \in {execute_with_context(TheExecutor, Ast.inner.inner,
                                         QueryContext(None, None)).res} :
          /\ node.ok
          /\ get_property(node.v, Ast.inner.name) = Err(PropertyNotFound(Ast.inner.name))

\* C28: a Property falls back to scope resolution only on a block index that
\* an Index inside its inner path recorded. A Property of a node that comes
\* before every Index, as foo in x/foo/0 when node x has no field foo, fails
\* with PropertyNotFound(foo) whatever Index follows it, even when block 0 or
\* Global has foo.
C28_FallbackOnlyAfterIndex ==
    /\ IndexOverMissingProperty => out = Err(PropertyNotFound(Ast.inner.name))
    /\ (/\ Ran
        /\ Ast.t = "Property"
        /\ ~HasIndex(Ast.inner)
        /\ InnerStep.res.ok
        /\ get_property(InnerStep.res.v, Ast.name) = Err(PropertyNotFound(Ast.name)))
            => out = Err(PropertyNotFound(Ast.name))

\* a Property that is the last segment of a path without an Index does not
\* fall back
C28_NoIndexNoFallback ==
    (/\ Ran
     /\ Ast.t = "Property"
     /\ ~HasIndex(Ast.inner)
     /\ InnerStep.res.ok
     /\ get_property(InnerStep.res.v, Ast.name) = Err(PropertyNotFound(Ast.name)))
        => out = Err(PropertyNotFound(Ast.name))

\* x/p was evaluated on a branch without p whose Global scope has p, and
\* failed with PropertyNotFound(p)
C28_NoIndexReached ==
    /\ Ran
    /\ Ast = Property(nP, Node(idX))
    /\ scope_resolver
    /\ nP \in DOMAIN config.properties
    /\ out = Err(PropertyNotFound(nP))

\* x/foo/0 was evaluated on a branch without foo whose first block has foo:
\* the later Index made the earlier Property fall back
C28_LaterIndexReached ==
    /\ IndexOverMissingProperty
    /\ Ast.inner.name = nFoo
    /\ Ast.idx = 0
    /\ out # Err(PropertyNotFound(nFoo))


-----------------------------------------------------------------------------
(* Properties of the bounds of a range (SpecArray)                           *)

\* C29: Range(start, end, inner) on an array of length n succeeds exactly when
\* start_or_0 <= end_or_last < n. It fails with IndexOutOfRange(start_or_0, n)
\* when start_or_0 >= n, whatever the end is; else with IndexOutOfRange(end, n)
\* when end >= n; else with InvalidType when start > end. Every Range over an
\* empty array fails, by the first rule, with IndexOutOfRange(0, 0) for a
\* start of 0; a Range on a value that is no array fails with InvalidType.
C29_RangeBounds ==
    (Queried /\ Ran /\ Ast.t = "Range" /\ InnerStep.res.ok) =>
        \E value \in {InnerStep.res.v} :
            /\ value.k # "Array" => ~out.ok /\ out.e.t = "InvalidType"
            /\ value.k = "Array" =>
                  \E n \in {Len(value.a)}, first \in {StartOr0(Ast.start)} :
                      \E last \in {EndOrLast(Ast.end, n)} :
                          /\ out.ok <=> (first <= last /\ last < n)
                          /\ first >= n => out = Err(IndexOutOfRange(first, n))
                          /\ (first < n /\ last >= n) => out = Err(IndexOutOfRange(last, n))
                          /\ (first < n /\ last < n /\ first > last)
                                => ~out.ok /\ out.e.t = "InvalidType"
                          /\ n = 0 => ~out.ok /\ out.e.t = "IndexOutOfRange" /\ out.e.len = 0
                          /\ (n = 0 /\ first = 0) => out = Err(IndexOutOfRange(0, 0))

\* C29 witness: x/blocks/1:2 on one block failed with IndexOutOfRange(1, 1),
\* the start being reported although the end is out of range too
C29_Witness ==
    /\ Queried
    /\ arg.text.v = xBlocks \o <<"/">> \o RangeText(Some(1), Some(2))
    /\ Len(BlocksOfX) = 1
    /\ out = Err(IndexOutOfRange(1, 1))

\* x/blocks/0:2 on two blocks failed with IndexOutOfRange(2, 2)
C29_EndReached ==
    /\ Queried
    /\ arg.text.v = xBlocks \o <<"/">> \o RangeText(Some(0), Some(2))
    /\ Len(BlocksOfX) = 2
    /\ out = Err(IndexOutOfRange(2, 2))

\* x/blocks/1:0 on two blocks failed with InvalidType
C29_StartAfterEndReached ==
    /\ Queried
    /\ arg.text.v = xBlocks \o <<"/">> \o RangeText(Some(1), Some(0))
    /\ Len(BlocksOfX) = 2
    /\ ~out.ok /\ out.e.t = "InvalidType"

\* x/blocks/: on no blocks failed with IndexOutOfRange(0, 0)
C29_EmptyReached ==
    /\ Queried
    /\ arg.text.v = xBlocks \o <<"/">> \o RangeText(None, None)
    /\ BlocksOfX = <<>>
    /\ out = Err(IndexOutOfRange(0, 0))

\* x/0:1, a range on an object, failed with InvalidType
C29_NonArrayReached ==
    /\ Queried
    /\ arg.text.v = idX \o <<"/">> \o RangeText(Some(0), Some(1))
    /\ ~out.ok /\ out.e.t = "InvalidType"


-----------------------------------------------------------------------------
(* Properties of the conversion of scope names (Spec)                        *)

\* the level a scope name spells in any letter case, "none" for other names
LevelNamed(name) ==
    CASE to_lowercase(name) = sBlock -> "Block"
      [] to_lowercase(name) = sBranch -> "Branch"
      [] to_lowercase(name) = sGroup -> "Group"
      [] to_lowercase(name) = sGlobal -> "Global"
      [] OTHER -> "none"

\* the levels of the names that spell one, in the order of the names
KeptLevels(names) ==
    LET kept == SelectSeq(names, LAMBDA name : LevelNamed(name) # "none")
    IN  [i \in 1..Len(kept) |-> LevelNamed(kept[i])]

\* C30: the scope names of a ScopeResolve that are none of block, branch,
\* group, global in any letter case are dropped and the others keep their
\* order; the property is resolved along the levels that remain, and along
\* the chain configured for the property and the block's type when none
\* remains, for a list of unknown names as for an empty list.
C30_UnknownScopesDropped ==
    ScopeResolveReachedBlock =>
        \E block \in {ContextBlock(InnerStep.context)}, levels \in {KeptLevels(Ast.scopes)} :
            \E chain \in {IF levels # <<>> THEN levels
                          ELSE PrescribedChain(config, Ast.property, block.type_)} :
                \E found \in {FirstMatch(StoresOf(config, block,
                                                  ContextBranch(InnerStep.context),
                                                  ContextGroup(InnerStep.context)),
                                         chain, Ast.property)} :
                    out = Answer(Ast.property,
                                 IF found.some THEN Some(found.v.value) ELSE None)

\* C30 witness: the list is z, branch; block and branch have the property
\* with different values and the configured chain starts at Block: z is
\* dropped and the branch's value is the answer
C30_Witness ==
    /\ ScopeResolveReachedBlock
    /\ Ast.scopes = <<<<"z">>, sBranch>>
    /\ Ast.property \in DOMAIN ContextBlock(InnerStep.context).extra
    /\ Ast.property \in DOMAIN ContextBranch(InnerStep.context).base.extra
    /\ ContextBlock(InnerStep.context).extra[Ast.property]
          # ContextBranch(InnerStep.context).base.extra[Ast.property]
    /\ Head(PrescribedChain(config, Ast.property, ContextBlock(InnerStep.context).type_)) = "Block"
    /\ out = Ok(toml_to_json(ContextBranch(InnerStep.context).base.extra[Ast.property]))

\* the list is z alone and the block has the property: no level remains and
\* the configured chain, which starts at Block, gives the block's value
C30_NoneRemainsReached ==
    /\ ScopeResolveReachedBlock
    /\ Ast.scopes = <<<<"z">>>>
    /\ Ast.property \in DOMAIN ContextBlock(InnerStep.context).extra
    /\ Head(PrescribedChain(config, Ast.property, ContextBlock(InnerStep.context).type_)) = "Block"
    /\ out = Ok(toml_to_json(ContextBlock(InnerStep.context).extra[Ast.property]))

\* the list is the one empty name that an empty ?scope= parses to: the
\* configured chain is used
C30_EmptyNameReached ==
    /\ ScopeResolveReachedBlock
    /\ parse_query_path(xBlocks \o <<"/", "0", "/">> \o nP \o sQuestionScopeEq).v.scopes = Ast.scopes
    /\ Ast.scopes = <<<<>>>>
    /\ Ast.property \in DOMAIN ContextBlock(InnerStep.context).extra
    /\ Head(PrescribedChain(config, Ast.property, ContextBlock(InnerStep.context).type_)) = "Block"
    /\ out = Ok(toml_to_json(ContextBlock(InnerStep.context).extra[Ast.property]))

\* the list is Global, with a capital: the Global value is the answer although
\* the block has the property and the configured chain starts at Block
C30_CapitalReached ==
    /\ ScopeResolveReachedBlock
    /\ Ast.scopes = <<<<"G", "l", "o", "b", "a", "l">>>>
    /\ Ast.property \in DOMAIN ContextBlock(InnerStep.context).extra
    /\ Ast.property \in DOMAIN config.properties
    /\ Head(PrescribedChain(config, Ast.property, ContextBlock(InnerStep.context).type_)) = "Block"
    /\ out = Ok(toml_to_json(GlobalValue))

====
